---- MODULE Spec2Model ----
(***************************************************************************)
(* Verification model of the faceless chat front-end:                      *)
(*   - WorldState (src/world_state.py)                                     *)
(*   - the ScenePlan parser (src/sceneplan_parser.py, src/scene_plan.py)   *)
(*   - the session controller (src/app/controllers/app_controller.py,      *)
(*     src/app/controllers/generation_controller.py)                       *)
(*   - the prompt composer and the workflow patcher                        *)
(*     (src/prompt_builder.py, src/workflow_patcher.py)                    *)
(*   - the generation worker thread (src/app/controllers/workers.py)       *)
(*                                                                         *)
(* Python strings are sequences of one-character strings, so that strip,   *)
(* partition, the brace scanner and the JSON decoder are computed          *)
(* character by character as the code computes them.                       *)
(*                                                                         *)
(* The specifications share the variables:                                 *)
(*   SpecWorld  : calls of WorldState.apply_sceneplan / add_turn           *)
(*   SpecParse  : calls of parse_sceneplan on generated model outputs      *)
(*   Spec       : the session (AppController handlers on the UI thread)    *)
(*   SpecLive   : Spec with weak fairness of its next-state relation       *)
(*   SpecPatch  : calls of patch_workflow on generated templates           *)
(*   SpecPrompt : calls of build_positive_prompt on generated fragments    *)
(*   SpecRun    : one worker thread running run(), next to the dialogs     *)
(*                (src/app/core/comfy_client.py for wait_for_history)      *)
(***************************************************************************)
EXTENDS Integers, Sequences, FiniteSets

VARIABLES
    \* ---- WorldState object and call trace (SpecWorld) ----
    ws,            \* the WorldState dataclass instance
    last_op,       \* the last method call made on ws, with its arguments
    inserted,      \* every ChatTurn ever appended by add_turn, in call order
    \* ---- parser calls (SpecParse) ----
    inp,           \* how the raw text was put together (head, marker, tail pieces)
    raw,           \* the raw model output handed to parse_sceneplan
    pres,          \* outcome of the call: not called / returned plan / raised
    \* ---- session (Spec) ----
    config,        \* AppController.config
    connection_ok, \* AppController.connection_ok
    prompt_graph,  \* TRUE iff AppController.prompt_graph is not None
    comfy_busy,    \* AppController.comfy_busy
    btn_generate,  \* InputPanel.btn_generate.isEnabled()
    chat_input,    \* InputPanel.chat_input.toPlainText()
    workers,       \* ChatGenerateWorker threads started and not finished
    last_req,      \* the last generate request and what on_generate did with it
    \* ---- patch_workflow / build_positive_prompt calls (SpecPatch, SpecPrompt) ----
    heap,          \* the dict objects of the job graphs, by address (in SpecRun
                   \* also the GenParams / CharacterParams objects)
    pargs,         \* the arguments of the calls (in SpecRun the controller's
                   \* char_params and params attributes)
    pout,          \* what the calls made so far returned or raised, in call order
    \* ---- one worker thread (SpecRun) ----
    run            \* the worker's fields, its position in run() and what it emitted

worldVars   == <<ws, last_op, inserted>>
parseVars   == <<inp, raw, pres>>
sessionVars == <<config, connection_ok, prompt_graph, comfy_busy, btn_generate,
                 chat_input, workers, last_req>>
patchVars   == <<heap, pargs, pout>>
runVars     == <<run>>
vars        == <<ws, last_op, inserted, inp, raw, pres,
                 config, connection_ok, prompt_graph, comfy_busy, btn_generate,
                 chat_input, workers, last_req, heap, pargs, pout, run>>

(***************************************************************************)
(* Python string helpers                                                   *)
(***************************************************************************)
\* characters removed by str.strip() that occur in the modelled texts
Whitespace == {" ", "\n", "\t", "\r", "\f"}

\* Throughout, CHOOSE r \in {F(x) : x \in {e}} : TRUE is F(e) written so that e
\* is computed once and F works on its value.

\* str.lstrip(): drop the leading whitespace
lstrip(s0) ==
    CHOOSE r \in
      { LET keep == {i \in 1..Len(s) : s[i] \notin Whitespace}
        IN  IF keep = {} THEN <<>>
            ELSE SubSeq(s, CHOOSE i \in keep : \A j \in keep : i <= j, Len(s))
        : s \in {s0} } : TRUE

\* str.rstrip(): drop the trailing whitespace
rstrip(s0) ==
    CHOOSE r \in
      { LET keep == {i \in 1..Len(s) : s[i] \notin Whitespace}
        IN  IF keep = {} THEN <<>>
            ELSE SubSeq(s, 1, CHOOSE i \in keep : \A j \in keep : i >= j)
        : s \in {s0} } : TRUE

\* str.strip()
strip(s) == rstrip(lstrip(s))

\* truthiness of a Python str
Truthy(s) == s # <<>>

(***************************************************************************)
(* WorldState  (src/world_state.py)                                        *)
(***************************************************************************)
S_unspecified == <<"u","n","s","p","e","c","i","f","i","e","d">>
S_neutral     == <<"n","e","u","t","r","a","l">>
S_park        == <<"p","a","r","k">>
S_cafe        == <<"c","a","f","e">>
S_trees       == <<"t","r","e","e","s">>
S_lamp        == <<"l","a","m","p">>
S_happy       == <<"h","a","p","p","y">>
S_pose        == <<"p","o","s","e">>

\* default of WorldState.history_max
HistoryMaxDefault == 10

\* WorldState.update_identity_profile(profile)
update_identity_profile(self, profile) ==
    [self EXCEPT !.identity_profile = strip(profile), !.turn_id = @ + 1]

\* WorldState(...) with the dataclass defaults and a chosen history_max
WorldStateNew(identity, hmax) ==
    [identity_profile  |-> identity,
     location          |-> S_unspecified,
     mood              |-> S_neutral,
     visual_anchor     |-> <<>>,
     last_scene_append |-> <<>>,
     turn_id           |-> 0,
     history           |-> <<>>,
     history_max       |-> hmax]

\* WorldState.apply_sceneplan without the change_scene guard
apply_sceneplan_unguarded(w, sceneplan) ==
    LET w1 == IF Truthy(sceneplan.mood) THEN [w EXCEPT !.mood = sceneplan.mood] ELSE w
        w2 == IF Truthy(sceneplan.scene_append)
              THEN [w1 EXCEPT !.last_scene_append = sceneplan.scene_append] ELSE w1
        w3 == IF Truthy(sceneplan.location)
              THEN [w2 EXCEPT !.location = sceneplan.location] ELSE w2
    IN  IF Truthy(sceneplan.visual_anchor)
        THEN [w3 EXCEPT !.visual_anchor = sceneplan.visual_anchor] ELSE w3

\* WorldState.apply_sceneplan that assigns the anchor even when it is empty
apply_sceneplan_blank(w, sceneplan) ==
    LET w1 == IF Truthy(sceneplan.mood) THEN [w EXCEPT !.mood = sceneplan.mood] ELSE w
        w2 == IF Truthy(sceneplan.scene_append)
              THEN [w1 EXCEPT !.last_scene_append = sceneplan.scene_append] ELSE w1
    IN  IF sceneplan.change_scene
        THEN [w2 EXCEPT !.location = sceneplan.location,
                        !.visual_anchor = sceneplan.visual_anchor]
        ELSE w2

\* WorldState.apply_sceneplan
apply_sceneplan(w, sceneplan) ==
    LET w1 == IF Truthy(sceneplan.mood) THEN [w EXCEPT !.mood = sceneplan.mood] ELSE w
        w2 == IF Truthy(sceneplan.scene_append)
              THEN [w1 EXCEPT !.last_scene_append = sceneplan.scene_append] ELSE w1
    IN  IF sceneplan.change_scene
        THEN LET w3 == IF Truthy(sceneplan.location)
                       THEN [w2 EXCEPT !.location = sceneplan.location] ELSE w2
             IN  IF Truthy(sceneplan.visual_anchor)
                 THEN [w3 EXCEPT !.visual_anchor = sceneplan.visual_anchor] ELSE w3
        ELSE w2

\* ChatTurn(user_text=..., assistant_text=..., scene_plan=...)
ChatTurn(user_text, assistant_text, scene_plan) ==
    [user_text |-> user_text, assistant_text |-> assistant_text, scene_plan |-> scene_plan]

\* list[-n:] of Python: the last n elements; for n = 0 it is list[0:], the whole list
SliceLast(list, n) ==
    IF n = 0 THEN list
    ELSE IF n >= Len(list) THEN list
    ELSE SubSeq(list, Len(list) - n + 1, Len(list))

\* WorldState.add_turn
add_turn(w, user_text, assistant_text, scene_plan) ==
    LET h == Append(w.history, ChatTurn(strip(user_text), strip(assistant_text), scene_plan))
    IN  IF Len(h) > w.history_max
        THEN [w EXCEPT !.history = SliceLast(h, w.history_max)]
        ELSE [w EXCEPT !.history = h]

(***************************************************************************)
(* SpecWorld: any sequence of apply_sceneplan / add_turn calls             *)
(***************************************************************************)
\* largest history_max a WorldState is constructed with
MaxHistoryMax == 2
\* the claim about eviction inserts history_max + ExtraTurns turns
ExtraTurns == 5

\* plans handed to apply_sceneplan: every combination of empty / non-empty fields
PlanValues ==
    [reply         : {<<"o","k">>},
     scene_append  : {<<>>, S_pose},
     mood          : {<<>>, S_happy},
     location      : {<<>>, S_park, S_cafe},
     visual_anchor : {<<>>, S_trees, S_lamp},
     change_scene  : BOOLEAN]

\* the user text of the k-th recorded turn: distinct per turn, and in need of trimming
Digits == <<"1","2","3","4","5","6","7","8","9">>
UserText(k) == <<" ", Digits[((k - 1) % 9) + 1], "\n">>
\* the plan recorded with a turn
TurnPlan == [reply |-> <<"o","k">>, scene_append |-> S_pose, mood |-> <<>>,
             location |-> <<>>, visual_anchor |-> <<>>, change_scene |-> FALSE]

NoOp == [op |-> "none"]

ParseIdle == /\ inp = [kind |-> "none"]
             /\ raw = <<>>
             /\ pres = [kind |-> "idle"]

SessionIdle == /\ config = [kind |-> "none"]
               /\ connection_ok = FALSE
               /\ prompt_graph = FALSE
               /\ comfy_busy = FALSE
               /\ btn_generate = FALSE
               /\ chat_input = <<>>
               /\ workers = 0
               /\ last_req = NoOp

PatchIdle == /\ heap = <<>>
             /\ pargs = [kind |-> "none"]
             /\ pout = <<>>

RunIdle == run = [pc |-> "none"]

WorldIdle == /\ ws = [kind |-> "none"]
             /\ last_op = NoOp
             /\ inserted = <<>>

InitWorld ==
    /\ \E hmax \in 0..MaxHistoryMax : ws = WorldStateNew(<<>>, hmax)
    /\ last_op = NoOp
    /\ inserted = <<>>
    /\ ParseIdle
    /\ SessionIdle
    /\ PatchIdle
    /\ RunIdle

\* world_state.apply_sceneplan(plan)
ApplySceneplan ==
    \E plan \in PlanValues :
        /\ ws' = apply_sceneplan(ws, plan)
        /\ last_op' = [op |-> "apply", plan |-> plan]
        /\ UNCHANGED <<inserted, parseVars, sessionVars, patchVars, runVars>>

\* world_state.add_turn(user_text, assistant_text, plan)
AddTurn ==
    LET user_text == UserText(Len(inserted) + 1) IN
        /\ Len(inserted) < ws.history_max + ExtraTurns
        /\ ws' = add_turn(ws, user_text, TurnPlan.reply, TurnPlan)
        /\ inserted' = Append(inserted, ChatTurn(strip(user_text), strip(TurnPlan.reply), TurnPlan))
        /\ last_op' = [op |-> "add_turn"]
        /\ UNCHANGED <<parseVars, sessionVars, patchVars, runVars>>

NextWorld == ApplySceneplan \/ AddTurn

SpecWorld == InitWorld /\ [][NextWorld]_vars

(***************************************************************************)
(* Claims about WorldState (checked under SpecWorld)                       *)
(***************************************************************************)
\* C3: a step changes location or visual_anchor only if it is an apply_sceneplan
\* call whose plan has change_scene = true; hence an apply with
\* change_scene = false leaves both unchanged whatever the plan's location and
\* visual_anchor are.
C3_LockedUnlessChangeScene ==
    [][ (ws'.location # ws.location \/ ws'.visual_anchor # ws.visual_anchor)
        => (last_op'.op = "apply" /\ last_op'.plan.change_scene) ]_vars

\* C3 witness: a plan with change_scene = false and non-empty location and anchor
\* was applied to a state with a locked anchor, and the state kept its own values
C3_Witness ==
    /\ last_op.op = "apply"
    /\ ~last_op.plan.change_scene
    /\ last_op.plan.location = S_cafe
    /\ last_op.plan.visual_anchor = S_lamp
    /\ ws.location = S_park
    /\ ws.visual_anchor = S_trees

MostRecent(turns, n) ==
    IF n >= Len(turns) THEN turns ELSE SubSeq(turns, Len(turns) - n + 1, Len(turns))

\* C5: history never exceeds history_max, and after history_max + 5 insertions it
\* holds exactly the history_max most recent turns, oldest first.
C5_HistoryBounded ==
    /\ Len(ws.history) <= ws.history_max
    /\ (Len(inserted) = ws.history_max + ExtraTurns
        => ws.history = MostRecent(inserted, ws.history_max))

(***************************************************************************)
(* ScenePlan parser  (src/sceneplan_parser.py)                             *)
(***************************************************************************)
SCENEPLAN_MARKER ==
    <<"-","-","-","S","C","E","N","E","P","L","A","N","-","-","-">>
DEFAULT_SCENE_APPEND ==
    <<"s","a","m","e"," ","l","o","c","a","t","i","o","n",","," ","s","a",
      "m","e"," ","o","u","t","f","i","t",","," ","s","u","b","t","l","e",
      " ","c","h","a","n","g","e"," ","i","n"," ","e","x","p","r","e","s",
      "s","i","o","n",","," ","n","a","t","u","r","a","l"," ","p","o","s",
      "e"," ","c","o","n","t","i","n","u","i","t","y">>
DEFAULT_REPLY == <<".",".",".">>

K_reply         == <<"r","e","p","l","y">>
K_scene_append  == <<"s","c","e","n","e","_","a","p","p","e","n","d">>
K_mood          == <<"m","o","o","d">>
K_location      == <<"l","o","c","a","t","i","o","n">>
K_visual_anchor == <<"v","i","s","u","a","l","_","a","n","c","h","o","r">>
K_change_scene  == <<"c","h","a","n","g","e","_","s","c","e","n","e">>

\* Python None
None == [t |-> "None"]

\* s[i:] (1-based i)
From(s, i) == SubSeq(s, i, Len(s))

\* str.find(sep) + 1: index of the first occurrence of sep in s, 0 if there is none
find(s0, sep) ==
    CHOOSE r \in
      { IF hits = {} THEN 0 ELSE CHOOSE i \in hits : \A j \in hits : i <= j
        : hits \in {{i \in 1..(Len(s) - Len(sep) + 1) :
                        SubSeq(s, i, i + Len(sep) - 1) = sep} : s \in {s0}} } : TRUE

\* str.partition(sep): (head, sep, tail) split at the first occurrence of sep,
\* (s, "", "") when sep does not occur; .sep is the truthiness of the middle part
partition(s0, sep) ==
    CHOOSE r \in
      { IF i = 0 THEN [head |-> s, sep |-> FALSE, tail |-> <<>>]
        ELSE [head |-> SubSeq(s, 1, i - 1), sep |-> TRUE, tail |-> From(s, i + Len(sep))]
        : s \in {s0}, i \in {find(s0, sep)} } : TRUE

\* _extract_reply_text
_extract_reply_text(raw_text) ==
    IF raw_text = <<>> THEN <<>>
    ELSE strip(partition(raw_text, SCENEPLAN_MARKER).head)

\* the scanner loop body without the escape flag: a quote always ends a string
ScanStep_NoEscape(text, st, idx) ==
    LET ch == text[idx]
    IN  IF st.in_string
        THEN IF ch = "\"" THEN [st EXCEPT !.in_string = FALSE] ELSE st
        ELSE IF ch = "\"" THEN [st EXCEPT !.in_string = TRUE]
        ELSE IF ch = "{"
        THEN [st EXCEPT !.start = IF st.depth = 0 THEN idx ELSE st.start,
                        !.depth = st.depth + 1]
        ELSE IF ch = "}" /\ st.depth > 0
        THEN IF st.depth - 1 = 0 /\ st.start # 0
             THEN [st EXCEPT !.depth = 0,
                             !.blocks = Append(st.blocks, SubSeq(text, st.start, idx)),
                             !.start = 0]
             ELSE [st EXCEPT !.depth = st.depth - 1]
        ELSE st

\* one iteration of the loop of _find_json_blocks (start = 0 stands for None)
ScanStep(text, st, idx) ==
    LET ch == text[idx]
    IN  IF st.in_string
        THEN IF st.escape THEN [st EXCEPT !.escape = FALSE]
             ELSE IF ch = "\\" THEN [st EXCEPT !.escape = TRUE]
             ELSE IF ch = "\"" THEN [st EXCEPT !.in_string = FALSE]
             ELSE st
        ELSE IF ch = "\"" THEN [st EXCEPT !.in_string = TRUE]
        ELSE IF ch = "{"
        THEN [st EXCEPT !.start = IF st.depth = 0 THEN idx ELSE st.start,
                        !.depth = st.depth + 1]
        ELSE IF ch = "}" /\ st.depth > 0
        THEN IF st.depth - 1 = 0 /\ st.start # 0
             THEN [st EXCEPT !.depth = 0,
                             !.blocks = Append(st.blocks, SubSeq(text, st.start, idx)),
                             !.start = 0]
             ELSE [st EXCEPT !.depth = st.depth - 1]
        ELSE st

\* the loop `for idx, ch in enumerate(text)` over idx = lo..hi, evaluated by
\* halving the index range (the iterations are applied in index order)
RECURSIVE ScanRange(_, _, _, _)
ScanRange(text, st0, lo0, hi0) ==
    CHOOSE r \in
      { IF lo > hi THEN st
        ELSE IF lo = hi THEN ScanStep(text, st, lo)
        ELSE CHOOSE out \in
               { ScanRange(text, half, mid + 1, hi)
                 : half \in {ScanRange(text, st, lo, mid)} } : TRUE
        : st \in {st0}, lo \in {lo0}, hi \in {hi0}, mid \in {(lo0 + hi0) \div 2} } : TRUE

\* _find_json_blocks
_find_json_blocks(text0) ==
    CHOOSE r \in
      { ScanRange(text,
                  [blocks |-> <<>>, start |-> 0, depth |-> 0,
                   in_string |-> FALSE, escape |-> FALSE],
                  1, Len(text)).blocks
        : text \in {text0} } : TRUE

(***************************************************************************)
(* json.loads (CPython json.decoder / json.scanner), on character          *)
(* sequences.  Decoded values are tagged records:                          *)
(*   [t |-> "str", v |-> chars]   [t |-> "bool", v |-> b]   [t |-> "None"] *)
(*   [t |-> "num"]   [t |-> "list"]   [t |-> "dict", v |-> <<key, value>>*]*)
(* A \uXXXX escape decodes to the single placeholder character "U+".       *)
(***************************************************************************)
JsonWs       == {" ", "\t", "\n", "\r"}
\* characters below 0x20 that occur in the modelled texts ("BS" is backspace)
ControlChars == {"\n", "\t", "\r", "\f", "BS"}
DigitChars   == {"0","1","2","3","4","5","6","7","8","9"}
HexDigits    == DigitChars \cup {"a","b","c","d","e","f","A","B","C","D","E","F"}

\* json.decoder.BACKSLASH
BACKSLASH == [esc \in {"\"", "\\", "/", "b", "f", "n", "r", "t"} |->
                CASE esc = "b" -> "BS"
                  [] esc = "f" -> "\f"
                  [] esc = "n" -> "\n"
                  [] esc = "r" -> "\r"
                  [] esc = "t" -> "\t"
                  [] OTHER     -> esc]

\* the decoder raised JSONDecodeError
Fail == [ok |-> FALSE]
Ok(value, pos) == [ok |-> TRUE, val |-> value, pos |-> pos]

\* WHITESPACE.match(s, i).end()
skip_ws(s, i0) ==
    CHOOSE r \in
      { IF stops = {} THEN Len(s) + 1 ELSE CHOOSE j \in stops : \A k \in stops : j <= k
        : stops \in {{j \in i..Len(s) : s[j] \notin JsonWs} : i \in {i0}} } : TRUE

\* s[i:].startswith(lit)
StartsWith(s, i, lit) == i + Len(lit) - 1 <= Len(s) /\ SubSeq(s, i, i + Len(lit) - 1) = lit

\* one iteration of the character loop of py_scanstring(s, end, strict=True);
\* st.skip counts the characters of an escape sequence still to be passed over
StringStep(s, st, idx) ==
    IF st.skip > 0 THEN [st EXCEPT !.skip = st.skip - 1]
    ELSE LET ch == s[idx]
         IN  IF ch = "\"" THEN [st EXCEPT !.phase = "done", !.pos = idx + 1]
             ELSE IF ch = "\\"
             THEN IF idx + 1 > Len(s) THEN [st EXCEPT !.phase = "fail"]
                  ELSE LET esc == s[idx + 1]
                       IN  IF esc = "u"
                           THEN IF /\ idx + 5 <= Len(s)
                                   /\ \A k \in 2..5 : s[idx + k] \in HexDigits
                                THEN [st EXCEPT !.acc = Append(st.acc, "U+"), !.skip = 5]
                                ELSE [st EXCEPT !.phase = "fail"]
                           ELSE IF esc \in DOMAIN BACKSLASH
                           THEN [st EXCEPT !.acc = Append(st.acc, BACKSLASH[esc]), !.skip = 1]
                           ELSE [st EXCEPT !.phase = "fail"]
             ELSE IF ch \in ControlChars THEN [st EXCEPT !.phase = "fail"]
             ELSE [st EXCEPT !.acc = Append(st.acc, ch)]

\* the character loop of py_scanstring over idx = lo..hi, evaluated by halving the
\* index range; it stops at the closing quote or at the first error
RECURSIVE StringRange(_, _, _, _)
StringRange(s, st0, lo0, hi0) ==
    CHOOSE r \in
      { IF st.phase # "scan" \/ lo > hi THEN st
        ELSE IF lo = hi THEN StringStep(s, st, lo)
        ELSE CHOOSE out \in
               { StringRange(s, half, mid + 1, hi)
                 : half \in {StringRange(s, st, lo, mid)} } : TRUE
        : st \in {st0}, lo \in {lo0}, hi \in {hi0}, mid \in {(lo0 + hi0) \div 2} } : TRUE

\* py_scanstring(s, i, strict=True): i is the index after the opening quote;
\* running off the end of s is "Unterminated string"
scanstring(s, i) ==
    CHOOSE r \in
      { IF st.phase = "done" THEN Ok(st.acc, st.pos) ELSE Fail
        : st \in {StringRange(s, [phase |-> "scan", acc |-> <<>>, skip |-> 0, pos |-> 0],
                              i, Len(s))} } : TRUE

\* index after the run of digits that starts at i
digits_end(s, i0) ==
    CHOOSE r \in
      { IF stops = {} THEN Len(s) + 1 ELSE CHOOSE j \in stops : \A k \in stops : j <= k
        : stops \in {{j \in i..Len(s) : s[j] \notin DigitChars} : i \in {i0}} } : TRUE

\* NUMBER_RE.match(s, i): index after the match, 0 if there is no match
match_number(s, i) ==
    LET j      == IF i <= Len(s) /\ s[i] = "-" THEN i + 1 ELSE i
        intEnd == IF j <= Len(s) /\ s[j] = "0" THEN j + 1
                  ELSE IF j <= Len(s) /\ s[j] \in DigitChars THEN digits_end(s, j)
                  ELSE 0
    IN  IF intEnd = 0 THEN 0
        ELSE LET fracEnd == IF /\ intEnd <= Len(s)
                               /\ s[intEnd] = "."
                               /\ digits_end(s, intEnd + 1) > intEnd + 1
                            THEN digits_end(s, intEnd + 1) ELSE intEnd
                 signEnd == IF fracEnd + 1 <= Len(s) /\ s[fracEnd + 1] \in {"+", "-"}
                            THEN fracEnd + 2 ELSE fracEnd + 1
             IN  IF /\ fracEnd <= Len(s)
                    /\ s[fracEnd] \in {"e", "E"}
                    /\ digits_end(s, signEnd) > signEnd
                 THEN digits_end(s, signEnd) ELSE fracEnd

RECURSIVE scan_once(_, _)
RECURSIVE ObjectMembers(_, _, _)
RECURSIVE ArrayItems(_, _)

\* JSONObject: i is the index after the opening brace
JSONObject(s, i) ==
    CHOOSE r \in
      { IF j > Len(s) THEN Fail
        ELSE IF s[j] = "}" THEN Ok([t |-> "dict", v |-> <<>>], j + 1)
        ELSE IF s[j] = "\"" THEN ObjectMembers(s, j, <<>>)
        ELSE Fail
        : j \in {skip_ws(s, i)} } : TRUE

\* the while loop of JSONObject: i is at the opening quote of the next key
ObjectMembers(s, i, pairs) ==
    CHOOSE r \in
      { IF ~k.ok THEN Fail
        ELSE CHOOSE r2 \in
               { IF c > Len(s) \/ s[c] # ":" THEN Fail
                 ELSE CHOOSE r3 \in
                        { IF ~val.ok THEN Fail
                          ELSE CHOOSE r4 \in
                                 { IF e > Len(s) THEN Fail
                                   ELSE IF s[e] = "}"
                                   THEN Ok([t |-> "dict", v |-> pairs2], e + 1)
                                   ELSE IF s[e] # "," THEN Fail
                                   ELSE CHOOSE r5 \in
                                          { IF n <= Len(s) /\ s[n] = "\""
                                            THEN ObjectMembers(s, n, pairs2)
                                            ELSE Fail
                                            : n \in {skip_ws(s, e + 1)} } : TRUE
                                   : e \in {skip_ws(s, val.pos)},
                                     pairs2 \in {Append(pairs, <<k.val, val.val>>)} } : TRUE
                          : val \in {scan_once(s, skip_ws(s, c + 1))} } : TRUE
                 : c \in {skip_ws(s, k.pos)} } : TRUE
        : k \in {scanstring(s, i + 1)} } : TRUE

\* JSONArray: i is the index after the opening bracket
JSONArray(s, i) ==
    CHOOSE r \in
      { IF j > Len(s) THEN Fail
        ELSE IF s[j] = "]" THEN Ok([t |-> "list"], j + 1)
        ELSE ArrayItems(s, j)
        : j \in {skip_ws(s, i)} } : TRUE

\* the while loop of JSONArray: i is at the start of the next item
ArrayItems(s, i) ==
    CHOOSE r \in
      { IF ~val.ok THEN Fail
        ELSE CHOOSE r2 \in
               { IF e > Len(s) THEN Fail
                 ELSE IF s[e] = "]" THEN Ok([t |-> "list"], e + 1)
                 ELSE IF s[e] # "," THEN Fail
                 ELSE ArrayItems(s, skip_ws(s, e + 1))
                 : e \in {skip_ws(s, val.pos)} } : TRUE
        : val \in {scan_once(s, i)} } : TRUE

\* py_make_scanner._scan_once
scan_once(s, i0) ==
  CHOOSE out \in {
    IF i > Len(s) THEN Fail
    ELSE LET ch == s[i]
         IN  IF ch = "\""
             THEN CHOOSE r2 \in
                    { IF r.ok THEN Ok([t |-> "str", v |-> r.val], r.pos) ELSE Fail
                      : r \in {scanstring(s, i + 1)} } : TRUE
             ELSE IF ch = "{" THEN JSONObject(s, i + 1)
             ELSE IF ch = "[" THEN JSONArray(s, i + 1)
             ELSE IF StartsWith(s, i, <<"n","u","l","l">>) THEN Ok(None, i + 4)
             ELSE IF StartsWith(s, i, <<"t","r","u","e">>)
             THEN Ok([t |-> "bool", v |-> TRUE], i + 4)
             ELSE IF StartsWith(s, i, <<"f","a","l","s","e">>)
             THEN Ok([t |-> "bool", v |-> FALSE], i + 5)
             ELSE IF match_number(s, i) # 0 THEN Ok([t |-> "num"], match_number(s, i))
             ELSE IF StartsWith(s, i, <<"N","a","N">>) THEN Ok([t |-> "num"], i + 3)
             ELSE IF StartsWith(s, i, <<"I","n","f","i","n","i","t","y">>)
             THEN Ok([t |-> "num"], i + 8)
             ELSE IF StartsWith(s, i, <<"-","I","n","f","i","n","i","t","y">>)
             THEN Ok([t |-> "num"], i + 9)
             ELSE Fail
    : i \in {i0} } : TRUE

\* json.loads(s): Fail stands for JSONDecodeError
loads(s0) ==
    CHOOSE out \in
      { CHOOSE out2 \in
          { IF ~r.ok THEN Fail
            ELSE IF skip_ws(s, r.pos) # Len(s) + 1 THEN Fail
            ELSE r
            : r \in {scan_once(s, skip_ws(s, 1))} } : TRUE
        : s \in {s0} } : TRUE

\* dict.get(key) on decoded pairs: the last pair of a repeated key wins
RECURSIVE get_at(_, _, _)
get_at(pairs, key, i) ==
    IF i = 0 THEN None
    ELSE IF pairs[i][1] = key THEN pairs[i][2]
    ELSE get_at(pairs, key, i - 1)

get(d, key) == get_at(d.v, key, Len(d.v))

(***************************************************************************)
(* _parse_last_json, the ScenePlan dataclass and parse_sceneplan           *)
(***************************************************************************)
\* the for loop of _parse_last_json, over reversed(blocks): i counts down
RECURSIVE TryBlocks(_, _)
TryBlocks(blocks, i) ==
    IF i = 0 THEN None
    ELSE CHOOSE out \in
           { IF r.ok /\ r.val.t = "dict" THEN r.val
             ELSE TryBlocks(blocks, i - 1)
             : r \in {loads(blocks[i])} } : TRUE

\* _parse_last_json
_parse_last_json(text) ==
    CHOOSE out \in
      { TryBlocks(blocks, Len(blocks)) : blocks \in {_find_json_blocks(text)} } : TRUE

\* the fields of the ScenePlan dataclass (scene_plan.py): two without default
ScenePlanRequired == {"reply", "scene_append"}
ScenePlanDefaults ==
    [mood |-> S_neutral, location |-> S_unspecified, change_scene |-> FALSE]

Returned(value) == [kind |-> "return", plan |-> value]
Raised(exc)     == [kind |-> "raise", exc |-> exc]

\* ScenePlan(**kwargs): the generated __init__ accepts the declared fields only
ScenePlan(kwargs0) ==
    CHOOSE out \in
      { LET fields == ScenePlanRequired \cup DOMAIN ScenePlanDefaults
        IN  IF /\ DOMAIN kwargs \subseteq fields
               /\ ScenePlanRequired \subseteq DOMAIN kwargs
            THEN Returned([f \in fields |->
                             IF f \in DOMAIN kwargs THEN kwargs[f] ELSE ScenePlanDefaults[f]])
            ELSE Raised("TypeError")
        : kwargs \in {kwargs0} } : TRUE

\* isinstance(val, str) and val.strip()
IsNonBlankStr(val) == val.t = "str" /\ strip(val.v) # <<>>

\* the keyword arguments of the ScenePlan(...) call that parse_sceneplan reaches
ScenePlanArgs(llm_text) ==
    IF llm_text = <<>>
    THEN [reply |-> DEFAULT_REPLY, scene_append |-> DEFAULT_SCENE_APPEND,
          mood |-> S_neutral, location |-> <<>>, visual_anchor |-> <<>>,
          change_scene |-> FALSE]
    ELSE CHOOSE out \in
      { IF data.t = "dict"
        THEN LET reply_val         == get(data, K_reply)
                 scene_append_val  == get(data, K_scene_append)
                 mood_val          == get(data, K_mood)
                 location_val      == get(data, K_location)
                 visual_anchor_val == get(data, K_visual_anchor)
                 change_scene_val  == get(data, K_change_scene)
             IN  [reply         |-> IF IsNonBlankStr(reply_val)
                                    THEN strip(reply_val.v) ELSE reply,
                  scene_append  |-> IF IsNonBlankStr(scene_append_val)
                                    THEN strip(scene_append_val.v)
                                    ELSE DEFAULT_SCENE_APPEND,
                  mood          |-> IF IsNonBlankStr(mood_val)
                                    THEN strip(mood_val.v) ELSE S_neutral,
                  location      |-> IF IsNonBlankStr(location_val)
                                    THEN strip(location_val.v) ELSE <<>>,
                  visual_anchor |-> IF IsNonBlankStr(visual_anchor_val)
                                    THEN strip(visual_anchor_val.v) ELSE <<>>,
                  change_scene  |-> (change_scene_val.t = "bool" /\ change_scene_val.v)]
        ELSE [reply |-> reply, scene_append |-> DEFAULT_SCENE_APPEND,
              mood |-> S_neutral, location |-> <<>>, visual_anchor |-> <<>>,
              change_scene |-> FALSE]
        : data  \in { IF part.sep THEN _parse_last_json(part.tail) ELSE None
                      : part \in {partition(llm_text, SCENEPLAN_MARKER)} },
          reply \in { IF strip(reply_text) # <<>> THEN strip(reply_text) ELSE DEFAULT_REPLY
                      : reply_text \in {_extract_reply_text(llm_text)} } } : TRUE

\* parse_sceneplan: every return statement is ScenePlan(reply=..., scene_append=...,
\* mood=..., location=..., visual_anchor=..., change_scene=...)
parse_sceneplan(llm_text) == ScenePlan(ScenePlanArgs(llm_text))

(***************************************************************************)
(* SpecParse: parse_sceneplan and _find_json_blocks called on model        *)
(* outputs.  An input is described by its parts,                           *)
(*   [head, marker, tail] with tail a sequence of pieces,                  *)
(* a piece being free text or a JSON object given by the values of its     *)
(* six keys; raw is the text the parts render to.                          *)
(***************************************************************************)
\* values of object members: a string (rendered quoted and escaped), a bare
\* lexeme (true, false, a number), or no member at all
StrVal(chars) == [t |-> "str", v |-> chars]
LitVal(chars) == [t |-> "lit", v |-> chars]
Absent        == [t |-> "absent", v |-> <<>>]

L_true  == <<"t","r","u","e">>
L_false == <<"f","a","l","s","e">>

V_ok    == <<"o","k">>
V_pad   == <<" ","o","k","\n">>
V_qb    == <<"a","\"","}">>
V_br    == <<"{","b","}">>
V_bs    == <<"}","\\">>
V_blank == <<" ">>

\* the JSON string literal of chars (as json.dumps writes it)
RECURSIVE JsonEscape(_)
JsonEscape(chars) ==
    IF chars = <<>> THEN <<>>
    ELSE LET c == Head(chars)
         IN  (IF c = "\"" THEN <<"\\", "\"">>
              ELSE IF c = "\\" THEN <<"\\", "\\">>
              ELSE IF c = "\n" THEN <<"\\", "n">>
              ELSE <<c>>) \o JsonEscape(Tail(chars))

Quoted(chars) == <<"\"">> \o JsonEscape(chars) \o <<"\"">>

KeyOrder == <<"reply", "scene_append", "mood", "location", "visual_anchor", "change_scene">>
KeyChars == [reply |-> K_reply, scene_append |-> K_scene_append, mood |-> K_mood,
             location |-> K_location, visual_anchor |-> K_visual_anchor,
             change_scene |-> K_change_scene]

\* the members of obj from the i-th key on, each preceded by a comma
RECURSIVE RenderMembers(_, _)
RenderMembers(obj, i) ==
    IF i > Len(KeyOrder) THEN <<>>
    ELSE LET k  == KeyOrder[i]
             vd == obj[k]
         IN  (IF vd.t = "absent" THEN <<>>
              ELSE <<",">> \o Quoted(KeyChars[k]) \o <<":">>
                   \o (IF vd.t = "str" THEN Quoted(vd.v) ELSE vd.v))
             \o RenderMembers(obj, i + 1)

\* the text of the JSON object obj
RenderObj(obj) ==
    LET m == RenderMembers(obj, 1)
    IN  <<"{">> \o (IF m = <<>> THEN <<>> ELSE Tail(m)) \o <<"}">>

TextPiece(chars) == [kind |-> "text", text |-> chars, obj |-> <<>>]
ObjPiece(obj)    == [kind |-> "obj", text |-> RenderObj(obj), obj |-> obj]

RECURSIVE RenderTail(_)
RenderTail(pieces) ==
    IF pieces = <<>> THEN <<>> ELSE Head(pieces).text \o RenderTail(Tail(pieces))

RenderInput(d) ==
    d.head \o (IF d.marker THEN SCENEPLAN_MARKER \o RenderTail(d.tail) ELSE <<>>)

Heads == {<<>>, <<" ">>, <<" ","h","i","\n">>, <<"{","\"","a","\"",":","1","}">>}

\* objects with every key present and of the right type
FullObjs ==
    [reply         : {StrVal(V_ok), StrVal(V_pad), StrVal(V_qb), StrVal(V_bs)},
     scene_append  : {StrVal(S_pose), StrVal(V_br)},
     mood          : {StrVal(S_happy)},
     location      : {StrVal(S_park), StrVal(V_pad)},
     visual_anchor : {StrVal(S_trees), StrVal(V_qb)},
     change_scene  : {LitVal(L_true), LitVal(L_false)}]

\* objects with missing, blank or wrong-typed members
PartialObjs ==
    [reply         : {Absent, StrVal(V_blank), LitVal(<<"1">>)},
     scene_append  : {Absent, StrVal(<<>>), StrVal(S_pose)},
     mood          : {Absent, LitVal(L_true)},
     location      : {Absent, StrVal(S_cafe)},
     visual_anchor : {StrVal(S_lamp)},
     change_scene  : {Absent, StrVal(L_true), LitVal(<<"1">>), LitVal(L_true)}]

\* first and second object of the two-object tails
FirstObjs ==
    {[reply |-> StrVal(<<"o","n","e">>), scene_append |-> StrVal(V_br),
      mood |-> StrVal(S_happy), location |-> StrVal(S_cafe),
      visual_anchor |-> StrVal(S_lamp), change_scene |-> LitVal(L_true)],
     [reply |-> StrVal(<<"o","n","e">>), scene_append |-> Absent,
      mood |-> Absent, location |-> Absent,
      visual_anchor |-> Absent, change_scene |-> Absent]}
SecondObjs ==
    {[reply |-> StrVal(<<"t","w","o">>), scene_append |-> StrVal(S_pose),
      mood |-> StrVal(S_neutral), location |-> StrVal(S_park),
      visual_anchor |-> StrVal(S_trees), change_scene |-> LitVal(L_false)],
     [reply |-> Absent, scene_append |-> StrVal(V_qb),
      mood |-> Absent, location |-> Absent,
      visual_anchor |-> Absent, change_scene |-> LitVal(L_true)],
     [reply |-> Absent, scene_append |-> Absent,
      mood |-> Absent, location |-> Absent,
      visual_anchor |-> Absent, change_scene |-> Absent]}

\* free text around and between objects
Gaps == {<<>>, <<"\n">>, <<" ","\n"," ">>}
\* tails that hold no JSON object: nothing, blanks, unbalanced or malformed blocks
JunkTails ==
    {<<>>, <<"\n">>, <<"{">>, <<"}">>, <<"{","x","}">>, <<"{","\"","r","\"",":","}">>,
     <<"\"","{","}">>, <<"[","1","]">>, <<"{","\"","a","\"",":","\"","}">>}

InputsNoMarker == [head : Heads, marker : {FALSE}, tail : {<<>>}]
InputsJunk     == [head : Heads, marker : {TRUE},
                   tail : {<<TextPiece(j)>> : j \in JunkTails}]
InputsOneObj   == [head : {<<>>, <<" ","h","i","\n">>}, marker : {TRUE},
                   tail : {<<TextPiece(g), ObjPiece(o), TextPiece(g)>> :
                             g \in {<<>>, <<"\n">>, <<" ","o","k",":","\n">>},
                             o \in FullObjs \cup PartialObjs}]
\* one object after prose that opens a double quote and never closes it
InputsQuoted   == [head : {<<" ","h","i","\n">>}, marker : {TRUE},
                   tail : {<<TextPiece(<<"s","a","y"," ","\"">>), ObjPiece(o), TextPiece(<<>>)>> :
                             o \in SecondObjs}]
InputsTwoObjs  == [head : {<<" ","h","i","\n">>}, marker : {TRUE},
                   tail : {<<ObjPiece(a), TextPiece(g), ObjPiece(b), TextPiece(j)>> :
                             a \in FirstObjs, g \in Gaps, b \in SecondObjs,
                             j \in {<<>>, <<"{","x","}">>, <<"\n","{">>}}]

ParseInputs ==
    InputsNoMarker \cup InputsJunk \cup InputsOneObj \cup InputsQuoted \cup InputsTwoObjs

InitParse ==
    /\ \E d \in ParseInputs : inp = d /\ raw = RenderInput(d)
    /\ pres = [kind |-> "idle"]
    /\ WorldIdle
    /\ SessionIdle
    /\ PatchIdle
    /\ RunIdle

\* scene_plan = parse_sceneplan(raw_text)
CallParseSceneplan ==
    /\ pres.kind = "idle"
    /\ pres' = parse_sceneplan(raw)
    /\ UNCHANGED <<inp, raw, worldVars, sessionVars, patchVars, runVars>>

\* blocks = _find_json_blocks(tail) for the text after the marker
CallFindJsonBlocks ==
    /\ pres.kind = "idle"
    /\ inp.marker
    /\ pres' = [kind |-> "blocks", blocks |-> _find_json_blocks(RenderTail(inp.tail))]
    /\ UNCHANGED <<inp, raw, worldVars, sessionVars, patchVars, runVars>>

NextParse == CallParseSceneplan \/ CallFindJsonBlocks

SpecParse == InitParse /\ [][NextParse]_vars

(***************************************************************************)
(* Claims about the parser (checked under SpecParse)                       *)
(***************************************************************************)
ParseCalled == pres.kind \in {"return", "raise"}

\* the reply taken from the text before the marker
HeadReply(d) == IF strip(d.head) # <<>> THEN strip(d.head) ELSE DEFAULT_REPLY

\* C6: parse_sceneplan returns a ScenePlan for every input, without raising, and
\* the plan's reply and scene_append are not empty.
C6_ParseTotal ==
    ParseCalled => /\ pres.kind = "return"
                   /\ pres.plan.reply # <<>>
                   /\ pres.plan.scene_append # <<>>

\* C7: for a text without the marker the result has reply = the text trimmed (the
\* placeholder "..." if nothing is left), scene_append = the default phrase and
\* change_scene = false.
C7_NoMarker ==
    (ParseCalled /\ ~inp.marker)
    => /\ pres.kind = "return"
       /\ pres.plan.reply = HeadReply(inp)
       /\ pres.plan.scene_append = DEFAULT_SCENE_APPEND
       /\ pres.plan.change_scene = FALSE

\* every key present: five non-empty strings and a boolean change_scene
IsFullObj(obj) ==
    /\ \A k \in {"reply", "scene_append", "mood", "location", "visual_anchor"} :
          obj[k].t = "str" /\ obj[k].v # <<>>
    /\ obj.change_scene \in {LitVal(L_true), LitVal(L_false)}

\* chars holds none of the given characters
Without(chars, cs) == \A i \in 1..Len(chars) : chars[i] \notin cs

\* the tail holds one JSON object: free text, the object, free text, and no brace
\* in the free text
HoldsOneObj(d) ==
    /\ d.marker
    /\ Len(d.tail) = 3
    /\ d.tail[1].kind = "text" /\ d.tail[2].kind = "obj" /\ d.tail[3].kind = "text"
    /\ Without(d.tail[1].text, {"{", "}"})
    /\ Without(d.tail[3].text, {"{", "}"})

\* ... and the free text around the object holds no double quote either
OneObjTail(d) ==
    /\ HoldsOneObj(d)
    /\ Without(d.tail[1].text, {"\""})
    /\ Without(d.tail[3].text, {"\""})

\* C8: marker followed by exactly one valid JSON object with all six fields present:
\* the returned plan has exactly those values, strings trimmed.
C8_FullObject ==
    (ParseCalled /\ OneObjTail(inp) /\ IsFullObj(inp.tail[2].obj))
    => LET obj == inp.tail[2].obj
       IN  /\ pres.kind = "return"
           /\ pres.plan.reply = strip(obj.reply.v)
           /\ pres.plan.scene_append = strip(obj.scene_append.v)
           /\ pres.plan.mood = strip(obj.mood.v)
           /\ pres.plan.location = strip(obj.location.v)
           /\ pres.plan.visual_anchor = strip(obj.visual_anchor.v)
           /\ pres.plan.change_scene = (obj.change_scene.v = L_true)

\* the tail is two objects one after the other, and no further block
TwoObjTail(d) ==
    /\ d.marker
    /\ Len(d.tail) = 4
    /\ d.tail[1].kind = "obj" /\ d.tail[3].kind = "obj"
    /\ _find_json_blocks(d.tail[4].text) = <<>>

\* the value a field takes when only obj is consulted
FieldFrom(obj, k, default) ==
    IF obj[k].t = "str" /\ strip(obj[k].v) # <<>> THEN strip(obj[k].v) ELSE default

\* C9: with two sequential objects after the marker that both parse, every field
\* of the returned plan comes from the second object (or its fallback), none from
\* the first.
C9_SecondObjectOnly ==
    (ParseCalled /\ TwoObjTail(inp))
    => LET obj == inp.tail[3].obj
       IN  /\ pres.kind = "return"
           /\ pres.plan.reply = FieldFrom(obj, "reply", HeadReply(inp))
           /\ pres.plan.scene_append = FieldFrom(obj, "scene_append", DEFAULT_SCENE_APPEND)
           /\ pres.plan.mood = FieldFrom(obj, "mood", S_neutral)
           /\ pres.plan.location = FieldFrom(obj, "location", <<>>)
           /\ pres.plan.visual_anchor = FieldFrom(obj, "visual_anchor", <<>>)
           /\ pres.plan.change_scene = (obj.change_scene = LitVal(L_true))

\* C10 as stated: for every tail holding one JSON object (whose strings may contain
\* braces, or an escaped quote followed by a brace) _find_json_blocks returns that
\* whole object as its only block.
C10_Original ==
    (pres.kind = "blocks" /\ HoldsOneObj(inp))
    => pres.blocks = <<inp.tail[2].text>>

\* C10 (amended): braces inside the object's string literals do not change the
\* depth and an escaped quote does not end the string: for a tail holding one JSON
\* object and, around it, text without braces and without double quotes,
\* _find_json_blocks returns that whole object as its only block.
C10_WholeObjectOneBlock ==
    (pres.kind = "blocks" /\ OneObjTail(inp))
    => pres.blocks = <<inp.tail[2].text>>

\* C10 witness: the scanner ran on an object whose reply is a"} (rendered with an
\* escaped quote followed by a brace) and whose scene_append is {b}, and returned
\* the object as one block, prose before and after it
C10_Witness ==
    /\ pres.kind = "blocks"
    /\ OneObjTail(inp)
    /\ inp.tail[1].text # <<>>
    /\ inp.tail[2].obj.reply = StrVal(V_qb)
    /\ inp.tail[2].obj.scene_append = StrVal(V_br)
    /\ pres.blocks = <<inp.tail[2].text>>

(***************************************************************************)
(* The session: AppController on the UI thread                             *)
(*   (src/app/controllers/app_controller.py, generation_controller.py,     *)
(*    src/app/ui/components/input_panel.py, src/app/ui/main_window.py)     *)
(***************************************************************************)
\* values of config["llm_provider"]; the code lower-cases it before use
Providers == {"gemini", "ollama", "Ollama", "openai"}

\* str.lower() on the provider names above
lower(p) == IF p = "Ollama" THEN "ollama" ELSE p

\* the four keys load_config keeps (key and model: empty or not)
DEFAULT_CONFIG == [llm_provider |-> "gemini", gemini_api_key |-> <<>>,
                   ollama_model |-> <<"q","w","e","n">>,
                   prefer_ollama_while_busy |-> TRUE]

Configs == [llm_provider : Providers,
            gemini_api_key : {<<>>, <<"k","e","y">>},
            ollama_model : {<<>>, <<"q","w","e","n">>},
            prefer_ollama_while_busy : BOOLEAN]

\* what the character dialog's identity field can hold
IdentityProfiles == {<<>>, <<" ", "g", "i", "r", "l", " ">>}
\* bound on the number of accepted character dialogs (turn_id grows with each)
MaxProfileEdits == 2

\* what the user may have typed into chat_input
InputTexts == {<<>>, <<" ", "\n">>, <<" ", "h", "i", "\n">>}

\* refresh_generate_state: the value handed to window.set_generate_enabled
can_generate(cfg, conn, graph, busy) ==
    LET provider     == lower(cfg.llm_provider)
        has_provider == IF provider = "gemini" THEN Truthy(cfg.gemini_api_key)
                        ELSE IF provider = "ollama" THEN Truthy(cfg.ollama_model)
                        ELSE FALSE
        allow_while_busy == ~cfg.prefer_ollama_while_busy
        busy_block   == busy /\ ~allow_while_busy
    IN  conn /\ graph /\ has_provider /\ ~busy_block

\* positional parameters of GenerationController.start_chat_generation (after self)
StartChatGenerationParams == 11
\* positional arguments on_generate passes to it
OnGenerateArgs == 9

\* calling start_chat_generation with nargs positional arguments: the worker is
\* constructed and started, or the call itself raises TypeError
start_chat_generation(nargs) ==
    IF nargs = StartChatGenerationParams THEN [kind |-> "started"]
    ELSE Raised("TypeError")

\* AppController.__init__: load_config, load_workflow, test_connection_silent
Init ==
    /\ ParseIdle /\ PatchIdle /\ RunIdle
    /\ ws = WorldStateNew(<<>>, HistoryMaxDefault)
    /\ last_op = NoOp
    /\ inserted = <<>>
    /\ config \in Configs
    /\ prompt_graph \in BOOLEAN
    /\ connection_ok \in BOOLEAN
    /\ comfy_busy = FALSE
    /\ btn_generate = can_generate(config, connection_ok, prompt_graph, FALSE)
    /\ chat_input = <<>>
    /\ workers = 0
    /\ last_req = NoOp

\* what on_generate did with a request: the text it passed to window.set_status
\* and the outcome of its call of start_chat_generation, if it made one
Request(via, outcome, call) ==
    [op |-> "generate", via |-> via, busy |-> comfy_busy,
     status |-> outcome, call |-> call]

\* AppController.on_generate(user_text), user_text non-empty; ping is what
\* ComfyClient.ping() returns this time
on_generate(via, user_text, ping) ==
    LET provider == lower(config.llm_provider)
    IN  IF ~ping
        THEN /\ connection_ok' = FALSE
             /\ btn_generate' = can_generate(config, FALSE, prompt_graph, comfy_busy)
             /\ last_req' = Request(via, "not connected", NoOp)
             /\ UNCHANGED <<config, prompt_graph, comfy_busy, chat_input, workers>>
        ELSE IF ~prompt_graph
        THEN /\ connection_ok' = TRUE
             /\ last_req' = Request(via, "workflow not loaded", NoOp)
             /\ UNCHANGED <<config, prompt_graph, comfy_busy, btn_generate,
                            chat_input, workers>>
        ELSE IF provider = "gemini" /\ ~Truthy(config.gemini_api_key)
        THEN /\ connection_ok' = TRUE
             /\ last_req' = Request(via, "missing GEMINI_API_KEY", NoOp)
             /\ UNCHANGED <<config, prompt_graph, comfy_busy, btn_generate,
                            chat_input, workers>>
        ELSE IF provider = "ollama" /\ ~Truthy(config.ollama_model)
        THEN /\ connection_ok' = TRUE
             /\ last_req' = Request(via, "missing Ollama model", NoOp)
             /\ UNCHANGED <<config, prompt_graph, comfy_busy, btn_generate,
                            chat_input, workers>>
        ELSE LET call == start_chat_generation(OnGenerateArgs)
             IN  /\ connection_ok' = TRUE
                 /\ comfy_busy' = TRUE
                 /\ btn_generate' = can_generate(config, TRUE, prompt_graph, TRUE)
                 /\ chat_input' = <<>>
                 /\ workers' = IF call.kind = "started" THEN workers + 1 ELSE workers
                 /\ last_req' = Request(via, "...", call)
                 /\ UNCHANGED <<config, prompt_graph>>

\* InputPanel._emit_generate: emits generate_requested(stripped text) when the
\* text is not blank; the signal is connected directly to on_generate
_emit_generate(via) ==
    LET text == strip(chat_input)
    IN  /\ Truthy(text)
        /\ \E ping \in BOOLEAN : on_generate(via, text, ping)

\* the user edits the chat input
EditInput ==
    /\ \E t \in InputTexts : t # chat_input /\ chat_input' = t
    /\ UNCHANGED <<config, connection_ok, prompt_graph, comfy_busy, btn_generate,
                   workers, last_req>>
    /\ UNCHANGED <<worldVars, parseVars, patchVars, runVars>>

\* btn_generate.clicked -> _emit_generate; a disabled button emits no click
ClickGenerate ==
    /\ btn_generate
    /\ _emit_generate("click")
    /\ UNCHANGED <<worldVars, parseVars, patchVars, runVars>>

\* QShortcut("Ctrl+Return").activated -> InputPanel.trigger_generate
ShortcutGenerate ==
    /\ _emit_generate("shortcut")
    /\ UNCHANGED <<worldVars, parseVars, patchVars, runVars>>

\* open_api_keys_dialog, dialog accepted with new settings
OpenApiKeysDialog ==
    /\ \E c \in Configs : c # config /\ config' = c
    /\ btn_generate' = can_generate(config', connection_ok, prompt_graph, comfy_busy)
    /\ UNCHANGED <<connection_ok, prompt_graph, comfy_busy, chat_input, workers, last_req>>
    /\ UNCHANGED <<worldVars, parseVars, patchVars, runVars>>

\* open_connection_dialog, dialog accepted: test_connection_silent
OpenConnectionDialog ==
    /\ \E ping \in BOOLEAN :
          /\ connection_ok' = ping
          /\ btn_generate' = can_generate(config, ping, prompt_graph, comfy_busy)
    /\ UNCHANGED <<config, prompt_graph, comfy_busy, chat_input, workers, last_req>>
    /\ UNCHANGED <<worldVars, parseVars, patchVars, runVars>>

\* open_character_dialog, dialog accepted: the menu action is always enabled;
\* the handler runs on the UI thread and calls
\* world_state.update_identity_profile(char_params.identity_profile)
OpenCharacterDialog ==
    /\ ws.turn_id < MaxProfileEdits
    /\ \E profile \in IdentityProfiles :
          /\ ws' = update_identity_profile(ws, profile)
          /\ last_op' = [op |-> "update_identity_profile"]
    /\ UNCHANGED <<inserted, sessionVars, parseVars, patchVars, runVars>>

\* on_worker_done is the slot of a worker's `done` signal only
\* (generation_controller.py line 52); it has no other caller
Next ==
    \/ OpenCharacterDialog
    \/ EditInput
    \/ ClickGenerate
    \/ ShortcutGenerate
    \/ OpenApiKeysDialog
    \/ OpenConnectionDialog

Spec == Init /\ [][Next]_vars

\* the same session in which, as long as some handler can run, one eventually does
SpecLive == Spec /\ WF_vars(Next)

(***************************************************************************)
(* Claims about the session                                                *)
(***************************************************************************)
\* C1: at most one generation worker is in flight, and a generate request (click
\* or Ctrl+Return) that arrives while an admitted generation has not signalled
\* done is rejected: on_generate does not admit it and makes no attempt to start a
\* worker for it.
C1_OneInFlight ==
    /\ workers <= 1
    /\ (last_req.op = "generate" /\ last_req.busy) => last_req.call = NoOp

\* C2: every admission that sets comfy_busy is eventually followed by the
\* worker-finished handler clearing it; the session never stays busy for ever.
C2_BusyCleared == comfy_busy ~> ~comfy_busy

(***************************************************************************)
(* Prompt composer  (src/prompt_builder.py)                                *)
(***************************************************************************)
COMMA_SPACE == <<",", " ">>
FALLBACK_PROMPT ==
    <<"h","i","g","h"," ","q","u","a","l","i","t","y",","," ",
      "d","e","t","a","i","l","e","d">>

\* sep.join(parts)
RECURSIVE join(_, _)
join(sep, parts) ==
    IF parts = <<>> THEN <<>>
    ELSE IF Len(parts) = 1 THEN parts[1]
    ELSE parts[1] \o sep \o join(sep, Tail(parts))

\* the list built by `if value: parts.append(value)` over the given values
RECURSIVE NonEmptyParts(_)
NonEmptyParts(values) ==
    IF values = <<>> THEN <<>>
    ELSE IF Truthy(Head(values)) THEN <<Head(values)>> \o NonEmptyParts(Tail(values))
    ELSE NonEmptyParts(Tail(values))

\* build_positive_prompt testing the values before they are stripped
build_positive_prompt_raw_test(quality, visual_base, scene_append) ==
    CHOOSE out \in
      { IF parts # <<>>
        THEN join(COMMA_SPACE, [i \in DOMAIN parts |-> strip(parts[i])])
        ELSE FALLBACK_PROMPT
        : parts \in {NonEmptyParts(<<quality, visual_base, scene_append>>)} } : TRUE

\* build_positive_prompt
build_positive_prompt(quality, visual_base, scene_append) ==
    CHOOSE out \in
      { IF parts # <<>> THEN join(COMMA_SPACE, parts) ELSE FALLBACK_PROMPT
        : parts \in {NonEmptyParts(<<strip(quality), strip(visual_base),
                                     strip(scene_append)>>)} } : TRUE

(***************************************************************************)
(* Job graphs  (src/workflow_patcher.py)                                   *)
(* A graph is a dict node id -> node, a node a dict with class_type,       *)
(* inputs and (optionally) _meta.  Dicts that the code writes through are  *)
(* objects on the heap, a sequence addressed by position:                  *)
(*   graph  : [ids |-> <<id, ...>>, nodes |-> <<address of node, ...>>]    *)
(*            in insertion order                                           *)
(*   node   : [class_type |-> c, inputs |-> address of inputs dict,        *)
(*             meta |-> [has |-> _meta present, title |-> title or ""]]    *)
(*   inputs : a function key -> value (character sequences and integers;   *)
(*            lora strengths are in tenths)                                *)
(***************************************************************************)
T_POS     == "__PROMPT_POS__"
T_NEG     == "__PROMPT_NEG__"
T_LORA    == "__LORA_CHARACTER__"
T_CKPT    == "__CHECKPOINT_BASE__"
T_SAMPLER == "__SAMPLER_MAIN__"

\* node.get("_meta", {}).get("title", "")
MetaTitle(node) == IF node.meta.has THEN node.meta.title ELSE ""

\* d[key] = val on a dict given as a function
SetItem(d, key, val) == [k \in DOMAIN d \cup {key} |-> IF k = key THEN val ELSE d[k]]

\* g[node]["inputs"][key] = val, for the node at position i of graph g
SetInput(h, g, i, key, val) ==
    LET a == h[h[g].nodes[i]].inputs
    IN  [h EXCEPT ![a] = SetItem(@, key, val)]

\* the inputs dict of the node at position i of graph g
InputsOf(h, g, i) == h[h[h[g].nodes[i]].inputs]

\* the least / greatest element of a non-empty set of integers
Min(S) == CHOOSE x \in S : \A y \in S : x <= y
Max(S) == CHOOSE x \in S : \A y \in S : x >= y

\* find_node_by_title: position of the first node with that title, 0 for None
find_node_by_title(h, g, title) ==
    LET hits == {i \in 1..Len(h[g].nodes) : MetaTitle(h[h[g].nodes[i]]) = title}
    IN  IF hits = {} THEN 0 ELSE Min(hits)

\* detect_cliptext_nodes taking a negative-prompt node for the positive one too
detect_cliptext_nodes_either(h, g) ==
    LET pos == {i \in 1..Len(h[g].nodes) : MetaTitle(h[h[g].nodes[i]]) \in {T_POS, T_NEG}}
        neg == {i \in 1..Len(h[g].nodes) : MetaTitle(h[h[g].nodes[i]]) = T_NEG}
    IN  [pos_id |-> IF pos = {} THEN 0 ELSE Max(pos),
         neg_id |-> IF neg = {} THEN 0 ELSE Max(neg)]

\* detect_cliptext_nodes: positions of the last node titled __PROMPT_POS__ and of
\* the last one titled __PROMPT_NEG__, 0 for None
detect_cliptext_nodes(h, g) ==
    LET pos == {i \in 1..Len(h[g].nodes) : MetaTitle(h[h[g].nodes[i]]) = T_POS}
        neg == {i \in 1..Len(h[g].nodes) : MetaTitle(h[h[g].nodes[i]]) = T_NEG}
    IN  [pos_id |-> IF pos = {} THEN 0 ELSE Max(pos),
         neg_id |-> IF neg = {} THEN 0 ELSE Max(neg)]

\* json.loads(json.dumps(prompt_graph)) for the graph at address g: new dict
\* objects at the end of the heap, the copied graph at Len(h) + 1, its i-th node at
\* Len(h) + 2i and that node's inputs at Len(h) + 2i + 1.  The graph was read from
\* a JSON file, so its keys are strings and its values survive the round trip.
JsonCopy(h, g) ==
    LET n    == Len(h[g].nodes)
        base == Len(h)
    IN  h \o <<[ids |-> h[g].ids, nodes |-> [i \in 1..n |-> base + 2 * i]]>>
          \o [k \in 1..(2 * n) |->
                IF k % 2 = 1
                THEN [h[h[g].nodes[(k + 1) \div 2]] EXCEPT !.inputs = base + k + 2]
                ELSE h[h[h[g].nodes[k \div 2]].inputs]]

\* Optional[int]: None or an integer
IntVal(n) == [t |-> "int", v |-> n]

\* lines 53-67: the positive prompt written to the __PROMPT_POS__ node
PatchPositive(h0, g, pos_id, char_params, append_text, gen_params) ==
    CHOOSE out \in
      { LET inputs  == InputsOf(h, g, pos_id)
            current == IF "text" \in DOMAIN inputs THEN inputs["text"] ELSE <<>>
            base    == IF Truthy(char_params.visual_base)
                       THEN strip(char_params.visual_base) ELSE current
            extra   == strip(append_text)
            quality == strip(gen_params.quality_tags)
        IN  SetInput(h, g, pos_id, "text", build_positive_prompt(quality, base, extra))
        : h \in {h0} } : TRUE

\* lines 69-72: the negative prompt
PatchNegative(h0, g, neg_id, gen_params) ==
    CHOOSE out \in
      { IF neg_id # 0 /\ Truthy(gen_params.negative)
        THEN SetInput(h, g, neg_id, "text", gen_params.negative)
        ELSE h
        : h \in {h0} } : TRUE

\* the LoRA branch with the clip strength left as the template has it
PatchLora_ModelOnly(h0, g, char_params) ==
    CHOOSE out \in
      { LET lora_char_id == find_node_by_title(h, g, T_LORA)
        IN  IF lora_char_id # 0 /\ h[h[g].nodes[lora_char_id]].class_type = "LoraLoader"
            THEN IF Truthy(char_params.lora_name)
                 THEN SetInput(SetInput(h, g, lora_char_id, "lora_name", char_params.lora_name),
                               g, lora_char_id, "strength_model", char_params.lora_strength)
                 ELSE SetInput(h, g, lora_char_id, "strength_model", 0)
            ELSE h
        : h \in {h0} } : TRUE

\* the LoRA branch that drops the node from the graph when no LoRA is set
PatchLora_RemoveNode(h0, g, char_params) ==
    CHOOSE out \in
      { LET lora_char_id == find_node_by_title(h, g, T_LORA)
            keep         == [i \in 1..(Len(h[g].nodes) - 1) |->
                               IF i < lora_char_id THEN i ELSE i + 1]
        IN  IF lora_char_id # 0 /\ h[h[g].nodes[lora_char_id]].class_type = "LoraLoader"
            THEN IF Truthy(char_params.lora_name)
                 THEN SetInput(
                        SetInput(
                          SetInput(h, g, lora_char_id, "lora_name", char_params.lora_name),
                          g, lora_char_id, "strength_model", char_params.lora_strength),
                        g, lora_char_id, "strength_clip", char_params.lora_strength)
                 ELSE [h EXCEPT ![g] = [ids   |-> [i \in DOMAIN keep |-> h[g].ids[keep[i]]],
                                        nodes |-> [i \in DOMAIN keep |-> h[g].nodes[keep[i]]]]]
            ELSE h
        : h \in {h0} } : TRUE

\* lines 74-88: the character LoRA
PatchLora(h0, g, char_params) ==
    CHOOSE out \in
      { LET lora_char_id == find_node_by_title(h, g, T_LORA)
        IN  IF lora_char_id # 0 /\ h[h[g].nodes[lora_char_id]].class_type = "LoraLoader"
            THEN IF Truthy(char_params.lora_name)
                 THEN SetInput(
                        SetInput(
                          SetInput(h, g, lora_char_id, "lora_name", char_params.lora_name),
                          g, lora_char_id, "strength_model", char_params.lora_strength),
                        g, lora_char_id, "strength_clip", char_params.lora_strength)
                 ELSE SetInput(SetInput(h, g, lora_char_id, "strength_model", 0),
                               g, lora_char_id, "strength_clip", 0)
            ELSE h
        : h \in {h0} } : TRUE

\* lines 90-95: the checkpoint
PatchCheckpoint(h0, g, gen_params) ==
    CHOOSE out \in
      { IF Truthy(gen_params.checkpoint)
        THEN LET ckpt_id == find_node_by_title(h, g, T_CKPT)
             IN  IF /\ ckpt_id # 0
                    /\ h[h[g].nodes[ckpt_id]].class_type = "CheckpointLoaderSimple"
                 THEN SetInput(h, g, ckpt_id, "ckpt_name", gen_params.checkpoint)
                 ELSE h
        ELSE h
        : h \in {h0} } : TRUE

\* `if key in inputs: inputs[key] = val` on the inputs dict at address a
SetIfPresent(h, a, key, val) ==
    IF key \in DOMAIN h[a] THEN [h EXCEPT ![a] = SetItem(@, key, val)] ELSE h

\* lines 97-122: the sampler; randint is what random.randint(1, 2**31 - 1) returns
PatchSampler(h0, g, gen_params, randint) ==
    CHOOSE out \in
      { LET sampler_id == find_node_by_title(h, g, T_SAMPLER)
        IN  IF /\ sampler_id # 0
               /\ h[h[g].nodes[sampler_id]].class_type \in {"KSampler", "KSamplerAdvanced"}
            THEN LET a        == h[h[g].nodes[sampler_id]].inputs
                     new_seed == IF gen_params.seed.t = "None" THEN randint
                                 ELSE gen_params.seed.v
                 IN  SetIfPresent(
                       SetIfPresent(
                         SetIfPresent(
                           SetIfPresent(
                             SetIfPresent(h, a, "seed", new_seed),
                             a, "steps", gen_params.steps),
                           a, "cfg", gen_params.cfg),
                         a, "sampler_name", gen_params.sampler),
                       a, "scheduler", gen_params.scheduler)
            ELSE h
        : h \in {h0} } : TRUE

\* lines 53-122 in order, on the graph at address g whose marker nodes are ids
ApplyPatches(h, g, ids, char_params, append_text, gen_params, randint) ==
    PatchSampler(
      PatchCheckpoint(
        PatchLora(
          PatchNegative(
            PatchPositive(h, g, ids.pos_id, char_params, append_text, gen_params),
            g, ids.neg_id, gen_params),
          g, char_params),
        g, gen_params),
      g, gen_params, randint)

\* patch_workflow without the deep copy: g is the caller's graph
patch_workflow_in_place(h0, template, char_params, append_text, gen_params, randint) ==
    CHOOSE out \in
      { IF ids.pos_id = 0
        THEN [heap |-> h0, result |-> Raised("ValueError")]
        ELSE [heap |-> ApplyPatches(h0, template, ids, char_params, append_text,
                                    gen_params, randint),
              result |-> [kind |-> "return", graph |-> template]]
        : ids \in {detect_cliptext_nodes(h0, template)} } : TRUE

\* patch_workflow that also insists on a __PROMPT_NEG__ node
patch_workflow_neg_required(h0, template, char_params, append_text, gen_params, randint) ==
    CHOOSE out \in
      { CHOOSE out2 \in
          { IF ids.pos_id = 0 \/ ids.neg_id = 0
            THEN [heap |-> h, result |-> Raised("ValueError")]
            ELSE [heap |-> ApplyPatches(h, Len(h0) + 1, ids, char_params, append_text,
                                        gen_params, randint),
                  result |-> [kind |-> "return", graph |-> Len(h0) + 1]]
            : ids \in {detect_cliptext_nodes(h, Len(h0) + 1)} } : TRUE
        : h \in {JsonCopy(h0, template)} } : TRUE

\* patch_workflow(prompt_graph, ...) on the graph at address template of heap h0:
\* the heap after the call and what the call returned (the address of the new
\* graph g) or raised
patch_workflow(h0, template, char_params, append_text, gen_params, randint) ==
    CHOOSE out \in
      { CHOOSE out2 \in
          { IF ids.pos_id = 0
            THEN [heap |-> h, result |-> Raised("ValueError")]
            ELSE [heap |-> ApplyPatches(h, Len(h0) + 1, ids, char_params, append_text,
                                        gen_params, randint),
                  result |-> [kind |-> "return", graph |-> Len(h0) + 1]]
            : ids \in {detect_cliptext_nodes(h, Len(h0) + 1)} } : TRUE
        : h \in {JsonCopy(h0, template)} } : TRUE

(***************************************************************************)
(* SpecPatch: patch_workflow called, one or more times, on a template      *)
(* graph as load_workflow keeps it (AppController.prompt_graph)            *)
(***************************************************************************)
\* calls of patch_workflow on the same template in one behaviour
MaxPatches == 2

Node(id, class_type, inputs, has_meta, title) ==
    [id |-> id, class_type |-> class_type, inputs |-> inputs,
     meta |-> [has |-> has_meta, title |-> title]]

\* the heap holding one graph made of the given nodes: the graph at address 1,
\* its i-th node at 2i and that node's inputs at 2i + 1
GraphHeap(nodes) ==
    LET n == Len(nodes)
    IN  <<[ids |-> [i \in 1..n |-> nodes[i].id], nodes |-> [i \in 1..n |-> 2 * i]]>>
          \o [k \in 1..(2 * n) |->
                IF k % 2 = 1
                THEN [class_type |-> nodes[(k + 1) \div 2].class_type,
                      inputs |-> k + 2,
                      meta |-> nodes[(k + 1) \div 2].meta]
                ELSE nodes[k \div 2].inputs]

\* the address of the template graph
TEMPLATE == 1

\* the graph at address g read out of the heap: its nodes with their inputs
GraphAt(h, g) ==
    [i \in 1..Len(h[g].nodes) |->
        [id |-> h[g].ids[i],
         class_type |-> h[h[g].nodes[i]].class_type,
         meta |-> h[h[g].nodes[i]].meta,
         inputs |-> h[h[h[g].nodes[i]].inputs]]]

S_cat   == <<"a", " ", "c", "a", "t">>
S_girl  == <<" ", "g", "i", "r", "l", " ">>
S_hq    == <<"h", "q">>
S_bad   == <<"b", "a", "d">>
S_old   == <<"o", "l", "d">>
S_new   == <<"n", "e", "w">>
S_euler == <<"e", "u", "l", "e", "r">>

\* the variants of each marker node (<<>> : the node is not in the template)
PosNodes ==
    { <<>>,
      <<Node("6", "CLIPTextEncode", [text |-> S_cat, clip |-> 4], TRUE, T_POS)>>,
      <<Node("6", "CLIPTextEncode", [clip |-> 4], TRUE, T_POS)>> }
NegNodes ==
    { <<>>,
      <<Node("7", "CLIPTextEncode", [text |-> S_old, clip |-> 4], TRUE, T_NEG)>> }
LoraNodes ==
    { <<>>,
      <<Node("10", "LoraLoader",
             [lora_name |-> S_old, strength_model |-> 10, strength_clip |-> 5],
             TRUE, T_LORA)>>,
      <<Node("10", "LoraLoaderModelOnly",
             [lora_name |-> S_old, strength_model |-> 10], TRUE, T_LORA)>> }
CkptNodes ==
    { <<>>,
      <<Node("4", "CheckpointLoaderSimple", [ckpt_name |-> S_old], TRUE, T_CKPT)>> }
SamplerNodes ==
    { <<>>,
      <<Node("3", "KSampler",
             [seed |-> 7, steps |-> 20, cfg |-> 70, sampler_name |-> S_old,
              scheduler |-> S_old, denoise |-> 1], TRUE, T_SAMPLER)>>,
      <<Node("3", "KSamplerAdvanced",
             [noise_seed |-> 7, steps |-> 20, cfg |-> 70, sampler_name |-> S_old,
              scheduler |-> S_old, start_at_step |-> 0], TRUE, T_SAMPLER)>>,
      <<Node("3", "SamplerCustom", [noise_seed |-> 7, cfg |-> 70], TRUE, T_SAMPLER)>> }
\* nodes that carry no marker: one without _meta, one with another title
PlainNodes ==
    <<Node("8", "VAEDecode", [samples |-> 3], FALSE, ""),
      Node("9", "SaveImage", [filename_prefix |-> S_old], TRUE, "Save Image")>>

Templates ==
    { c \o s \o p \o n \o l \o PlainNodes :
        c \in CkptNodes, s \in SamplerNodes, p \in PosNodes, n \in NegNodes, l \in LoraNodes }

CharParamsValues ==
    { [visual_base |-> vb, lora_name |-> l[1], lora_strength |-> l[2]] :
        vb \in {<<>>, S_girl}, l \in {<<<<>>, 8>>, <<S_new, 8>>, <<S_new, 0>>} }

\* random.randint(1, 2**31 - 1): the two ends of the range
RandInts == {1, 2147483647}

GenParamsValues ==
    [seed : {None, IntVal(42)}, steps : {8}, cfg : {22}, sampler : {S_euler},
     scheduler : {S_new}, quality_tags : {S_hq}, negative : {<<>>, S_bad},
     checkpoint : {<<>>, S_new}]

AppendTexts == {<<>>, <<" ", "p", "o", "s", "e", "\n">>}

InitPatch ==
    /\ WorldIdle /\ ParseIdle /\ SessionIdle /\ RunIdle
    /\ \E nodes \in Templates : heap = GraphHeap(nodes)
    /\ pargs \in [char_params : CharParamsValues, append_text : AppendTexts,
                  gen_params : GenParamsValues]
    /\ pout = <<>>

\* graph = patch_workflow(self.prompt_graph, char_params, append_text, gen_params)
PatchWorkflow ==
    /\ Len(pout) < MaxPatches
    /\ \E randint \in RandInts :
         \E r \in {patch_workflow(heap, TEMPLATE, pargs.char_params, pargs.append_text,
                                  pargs.gen_params, randint)} :
            /\ heap' = r.heap
            /\ pout' = Append(pout, r.result)
    /\ UNCHANGED <<pargs, worldVars, parseVars, sessionVars, runVars>>

NextPatch == PatchWorkflow

SpecPatch == InitPatch /\ [][NextPatch]_vars

(***************************************************************************)
(* Claims about patch_workflow                                             *)
(***************************************************************************)
\* the template has a node titled title
HasMarker(title) ==
    \E i \in 1..Len(heap[TEMPLATE].nodes) : GraphAt(heap, TEMPLATE)[i].meta.title = title

\* the k-th call returned a graph
PatchReturned(k) == k \in 1..Len(pout) /\ pout[k].kind = "return"

\* the graph the k-th call returned
Patched(k) == GraphAt(heap, pout[k].graph)

\* C11: on a template with no node titled __PROMPT_POS__ every call of
\* patch_workflow raises the missing-node ValueError and returns no graph,
\* whatever the character and generation parameters.
C11_MissingPosRaises ==
    ~HasMarker(T_POS) => \A k \in 1..Len(pout) : pout[k] = Raised("ValueError")

\* C11 witness: a call on a template without __PROMPT_POS__ but with a negative
\* prompt node and a sampler has raised
C11_Witness ==
    /\ ~HasMarker(T_POS) /\ HasMarker(T_NEG) /\ HasMarker(T_SAMPLER)
    /\ Len(pout) >= 1
    /\ pout[1] = Raised("ValueError")

\* C12: patch_workflow never mutates its input graph: over every call, whether
\* it returns or raises, every object that existed before the call (the
\* template, its nodes and their inputs) is the same after it, so each call of
\* a sequence patches the same unmodified template.
C12_TemplateNeverMutated ==
    [][ /\ \A a \in 1..Len(heap) : heap'[a] = heap[a]
        /\ GraphAt(heap', TEMPLATE) = GraphAt(heap, TEMPLATE) ]_vars

\* C12 witness: the second call of a sequence returned a graph that differs
\* from the template and that is not the template object
C12_Witness ==
    /\ Len(pout) = 2
    /\ PatchReturned(1) /\ PatchReturned(2)
    /\ pout[2].graph # TEMPLATE
    /\ Patched(2) # GraphAt(heap, TEMPLATE)
    /\ Patched(2) = Patched(1)

\* positions of the template's nodes titled title whose class_type is in kinds
MarkerNodes(title, kinds) ==
    {i \in 1..Len(heap[TEMPLATE].nodes) :
        /\ GraphAt(heap, TEMPLATE)[i].meta.title = title
        /\ GraphAt(heap, TEMPLATE)[i].class_type \in kinds}

\* C13: when the template has a __LORA_CHARACTER__ node of class LoraLoader,
\* the node of every returned graph has strength_model = strength_clip: both
\* are the character's lora_strength, and lora_name the character's lora_name,
\* when lora_name is non-empty; both are 0 when lora_name is empty.
C13_LoraStrengthsEqual ==
    \A k \in 1..Len(pout) : \A i \in MarkerNodes(T_LORA, {"LoraLoader"}) :
        PatchReturned(k) =>
          LET inputs == Patched(k)[i].inputs
          IN  /\ inputs.strength_model = inputs.strength_clip
              /\ IF Truthy(pargs.char_params.lora_name)
                 THEN /\ inputs.strength_model = pargs.char_params.lora_strength
                      /\ inputs.lora_name = pargs.char_params.lora_name
                 ELSE inputs.strength_model = 0

\* C13 witness: a LoraLoader node whose template strengths differ from each
\* other has been patched for a character without a LoRA
C13_Witness ==
    /\ PatchReturned(1)
    /\ ~Truthy(pargs.char_params.lora_name)
    /\ \E i \in MarkerNodes(T_LORA, {"LoraLoader"}) :
         /\ GraphAt(heap, TEMPLATE)[i].inputs.strength_model
              # GraphAt(heap, TEMPLATE)[i].inputs.strength_clip
         /\ Patched(1)[i].inputs.strength_clip = 0

\* the sampler kinds of line 100
SamplerKinds == {"KSampler", "KSamplerAdvanced"}

\* C14: with a fixed seed and a __SAMPLER_MAIN__ node of a sampler kind
\* (KSampler or KSamplerAdvanced), the sampler node of every returned graph
\* carries that seed, so two calls with the same inputs carry the same seed.
C14_FixedSeedVerbatim ==
    pargs.gen_params.seed # None =>
      \A k \in 1..Len(pout) : \A i \in MarkerNodes(T_SAMPLER, SamplerKinds) :
          PatchReturned(k) =>
            /\ "seed" \in DOMAIN Patched(k)[i].inputs
            /\ Patched(k)[i].inputs.seed = pargs.gen_params.seed.v

\* C15: patch_workflow never alters the topology: every returned graph has
\* the template's node ids, each node keeps its class_type and its _meta, and
\* only the inputs of nodes titled with a marker differ from the template.
MarkerTitles == {T_POS, T_NEG, T_LORA, T_CKPT, T_SAMPLER}
C15_TopologyKept ==
    \A k \in 1..Len(pout) :
        PatchReturned(k) =>
          LET before == GraphAt(heap, TEMPLATE)
              after  == Patched(k)
          IN  /\ Len(after) = Len(before)
              /\ \A i \in 1..Len(before) :
                   /\ after[i].id = before[i].id
                   /\ after[i].class_type = before[i].class_type
                   /\ after[i].meta = before[i].meta
                   /\ after[i].inputs # before[i].inputs
                        => before[i].meta.title \in MarkerTitles

\* C15 witness: a returned graph in which the inputs of the LoRA node were
\* changed to switch the LoRA off and the unmarked nodes are as in the template
C15_Witness ==
    /\ PatchReturned(1)
    /\ ~Truthy(pargs.char_params.lora_name)
    /\ \E i \in MarkerNodes(T_LORA, {"LoraLoader"}) :
         Patched(1)[i].inputs # GraphAt(heap, TEMPLATE)[i].inputs
    /\ \E i \in 1..Len(Patched(1)) :
         /\ ~Patched(1)[i].meta.has
         /\ Patched(1)[i] = GraphAt(heap, TEMPLATE)[i]

\* C16: on a template with a __PROMPT_POS__ node every call returns a graph,
\* whichever of the optional marker nodes (__PROMPT_NEG__, __LORA_CHARACTER__,
\* __CHECKPOINT_BASE__, __SAMPLER_MAIN__) are present.
C16_OptionalMarkers ==
    HasMarker(T_POS) => \A k \in 1..Len(pout) : PatchReturned(k)

\* C16 witness: a call returned on a template with __PROMPT_POS__ and none of
\* the optional markers, with a negative prompt, a LoRA and a checkpoint asked
C16_Witness ==
    /\ HasMarker(T_POS)
    /\ \A t \in MarkerTitles \ {T_POS} : ~HasMarker(t)
    /\ Truthy(pargs.gen_params.negative)
    /\ Truthy(pargs.gen_params.checkpoint)
    /\ Truthy(pargs.char_params.lora_name)
    /\ PatchReturned(1)

(***************************************************************************)
(* SpecPrompt: build_positive_prompt called on generated fragments         *)
(***************************************************************************)
\* fragments: empty, blank, padded, with an inner space, with the separator
Fragments ==
    { <<>>, <<" ">>, <<"\n", "\t">>, <<"h", "q">>, <<" ", "g", "i", "r", "l", " ">>,
      <<"a", " ", "c", "a", "t">>, <<"a", ",", " ", "b", "\n">> }

InitPrompt ==
    /\ WorldIdle /\ ParseIdle /\ SessionIdle /\ RunIdle
    /\ heap = <<>>
    /\ pargs \in [quality : Fragments, visual_base : Fragments, scene_append : Fragments]
    /\ pout = <<>>

\* final_positive = build_positive_prompt(quality, base, extra)
CallBuildPositivePrompt ==
    /\ pout = <<>>
    /\ pout' = <<build_positive_prompt(pargs.quality, pargs.visual_base,
                                       pargs.scene_append)>>
    /\ UNCHANGED <<heap, pargs, worldVars, parseVars, sessionVars, runVars>>

NextPrompt == CallBuildPositivePrompt

SpecPrompt == InitPrompt /\ [][NextPrompt]_vars

(***************************************************************************)
(* Claims about build_positive_prompt (checked under SpecPrompt)           *)
(***************************************************************************)
\* two trimmed fragments with ", " between them when both are non-empty
Glue(a, b) == IF a = <<>> THEN b ELSE IF b = <<>> THEN a ELSE a \o <<",", " ">> \o b

\* C17: build_positive_prompt returns the non-empty trimmed fragments joined
\* with ", " in the order quality, visual_base, scene_append, empty fragments
\* skipped, and "high quality, detailed" when all three are empty after
\* trimming.
C17_PromptComposition ==
    pout # <<>> =>
      LET q == strip(pargs.quality)
          v == strip(pargs.visual_base)
          a == strip(pargs.scene_append)
      IN  IF q = <<>> /\ v = <<>> /\ a = <<>>
          THEN pout[1] = <<"h","i","g","h"," ","q","u","a","l","i","t","y",","," ",
                           "d","e","t","a","i","l","e","d">>
          ELSE pout[1] = Glue(q, Glue(v, a))

\* C17 witness: a blank middle fragment was skipped between two padded ones
C17_Witness ==
    /\ pout = << <<"g", "i", "r", "l", ",", " ", "a", ",", " ", "b">> >>
    /\ pargs.quality = <<" ", "g", "i", "r", "l", " ">>
    /\ pargs.visual_base = <<"\n", "\t">>
    /\ pargs.scene_append = <<"a", ",", " ", "b", "\n">>

(***************************************************************************)
(* The worker threads  (src/app/controllers/workers.py)                    *)
(* One thread, a ChatGenerateWorker (run: lines 104-207) or a              *)
(* GenerateWorker (run: lines 43-72), next to the UI thread's settings     *)
(* dialogs.  run.pc is the statement the thread is at.  The parameter      *)
(* objects live on the heap after the template graph: the worker and the   *)
(* controller hold their addresses.                                        *)
(* parse_sceneplan raises on every text (ScenePlan has no visual_anchor    *)
(* field), so in a ChatGenerateWorker control always leaves the try block  *)
(* at line 131: the statements of its lines 132-192 are never executed and *)
(* have no action here.                                                    *)
(***************************************************************************)
\* the providers run() dispatches on (lines 115-123)
KnownProviders == {"gemini", "openai", "ollama"}
\* values of the provider argument: the three known ones and another name
WorkerProviders == KnownProviders \cup {"groq"}

\* wait_for_history(prompt_id, poll=0.5, timeout_s=180), in seconds
TimeoutS == 180
\* extended_timeout += 120
Grace == 120
\* the time that passes between two readings of time.time() is 0 or Tick seconds
Tick == 60
\* bound on the number of settings dialogs accepted while the thread runs
MaxEdits == 1

\* the fields both workers have; w is the frame of wait_for_history
Worker(kind, pc, char_params, gen_params) ==
    [kind |-> kind, pc |-> pc, char_params |-> char_params, gen_params |-> gen_params,
     steps |-> <<>>, signals |-> <<>>, exc |-> None, prompt_append |-> None,
     graph |-> 0, w |-> [at |-> "none"], done |-> FALSE]

\* ChatGenerateWorker(client, prompt_graph, char_params, user_text, gen_params,
\*                    provider, ..., world_state)
ChatGenerateWorker(char_params, user_text, gen_params, provider) ==
    [f \in {"provider", "user_text"} \cup DOMAIN Worker("", "", 0, 0) |->
        IF f = "provider" THEN provider
        ELSE IF f = "user_text" THEN user_text
        ELSE Worker("ChatGenerateWorker", "PHASE 1", char_params, gen_params)[f]]

\* GenerateWorker(client, prompt_graph, char_params, append_text, gen_params)
GenerateWorker(char_params, append_text, gen_params) ==
    [f \in {"append_text"} \cup DOMAIN Worker("", "", 0, 0) |->
        IF f = "append_text" THEN append_text
        ELSE Worker("GenerateWorker", "patch", char_params, gen_params)[f]]

\* the state of a thread that executed the statements of `step`, emitted the
\* status `msg` in it and goes on at pc
Stepped(step, msg, pc, exc) ==
    [run EXCEPT !.pc = pc, !.steps = Append(@, step),
                !.signals = Append(@, <<"status", msg>>), !.exc = exc]

\* the templates of the runs: one with a positive prompt node and a sampler,
\* one without any marker node
RunTemplates ==
    { <<Node("3", "KSampler",
             [seed |-> 7, steps |-> 20, cfg |-> 70, sampler_name |-> S_old,
              scheduler |-> S_old, denoise |-> 1], TRUE, T_SAMPLER),
        Node("6", "CLIPTextEncode", [text |-> S_cat, clip |-> 4], TRUE, T_POS)>>
        \o PlainNodes,
      PlainNodes }

\* CharacterParams / GenParams at the start, and what the dialogs return
RunCharParams    == [visual_base |-> S_girl, lora_name |-> <<>>, lora_strength |-> 8]
EditedCharParams == [visual_base |-> S_cat, lora_name |-> S_new, lora_strength |-> 8]
RunGenParams(seed) ==
    [seed |-> seed, steps |-> 8, cfg |-> 22, sampler |-> S_euler, scheduler |-> S_new,
     quality_tags |-> S_hq, negative |-> <<>>, checkpoint |-> <<>>]
EditedGenParams ==
    [seed |-> IntVal(7), steps |-> 30, cfg |-> 45, sampler |-> S_old, scheduler |-> S_old,
     quality_tags |-> <<>>, negative |-> S_bad, checkpoint |-> <<>>]

\* the replies of the model in the runs
RunReplies ==
    InputsNoMarker \cup
    {d \in InputsOneObj : d.head = <<>> /\ d.tail[1].text = <<>> /\ IsFullObj(d.tail[2].obj)}

InitRun ==
    /\ ParseIdle /\ SessionIdle
    /\ ws \in { WorldStateNew(<<>>, HistoryMaxDefault),
                update_identity_profile(WorldStateNew(<<>>, HistoryMaxDefault),
                                        <<" ", "g", "i", "r", "l", " ">>) }
    /\ last_op = NoOp
    /\ inserted = <<>>
    /\ pout = <<>>
    /\ \E nodes \in RunTemplates, seed \in {None, IntVal(42)} :
          LET graph == GraphHeap(nodes)
              char  == Len(graph) + 1
              gen   == Len(graph) + 2
          IN  /\ heap = graph \o <<RunCharParams, RunGenParams(seed)>>
              \* AppController.char_params, AppController.params
              /\ pargs = [char_params |-> char, params |-> gen, edits |-> 0]
              /\ \/ \E provider \in WorkerProviders :
                       run = ChatGenerateWorker(char, <<" ", "h", "i", "\n">>, gen, provider)
                 \/ run = GenerateWorker(char, S_pose, gen)

\* ---- the UI thread while the worker runs ----
\* open_params_dialog accepted with the values written into the object the
\* controller already holds
ParamsDialogAccepted_InPlace ==
    /\ pargs.edits < MaxEdits
    /\ heap' = [heap EXCEPT ![pargs.params] = EditedGenParams]
    /\ pargs' = [pargs EXCEPT !.edits = @ + 1]
    /\ UNCHANGED <<pout, worldVars, parseVars, sessionVars, runVars>>

\* open_params_dialog accepted (app_controller.py lines 154-157):
\* self.params = dialog.get_params(), a new GenParams object
ParamsDialogAccepted ==
    /\ pargs.edits < MaxEdits
    /\ heap' = Append(heap, EditedGenParams)
    /\ pargs' = [pargs EXCEPT !.params = Len(heap) + 1, !.edits = @ + 1]
    /\ UNCHANGED <<pout, worldVars, parseVars, sessionVars, runVars>>

\* open_character_dialog accepted (lines 127-130): self.char_params =
\* dialog.get_params(), a new CharacterParams object, and
\* world_state.update_identity_profile(...)
CharacterDialogAccepted ==
    /\ pargs.edits < MaxEdits
    /\ heap' = Append(heap, EditedCharParams)
    /\ pargs' = [pargs EXCEPT !.char_params = Len(heap) + 1, !.edits = @ + 1]
    /\ \E profile \in IdentityProfiles :
          /\ ws' = update_identity_profile(ws, profile)
          /\ last_op' = [op |-> "update_identity_profile"]
    /\ UNCHANGED <<inserted, pout, parseVars, sessionVars, runVars>>

\* ---- ChatGenerateWorker.run ----
\* PHASE 1, the provider's client returns a text (lines 107-125)
Phase1_LlmReturns ==
    /\ run.pc = "PHASE 1"
    /\ run.provider \in KnownProviders
    /\ \E d \in RunReplies : inp' = d /\ raw' = RenderInput(d)
    /\ run' = Stepped("PHASE 1", <<"Calling", run.provider>>, "PHASE 2", None)
    /\ UNCHANGED <<pres, worldVars, sessionVars, patchVars>>

\* PHASE 1, the provider's client raises (no key, no server, HTTP error)
Phase1_LlmRaises ==
    /\ run.pc = "PHASE 1"
    /\ run.provider \in KnownProviders
    /\ run' = Stepped("PHASE 1", <<"Calling", run.provider>>, "except", "Exception")
    /\ UNCHANGED <<worldVars, parseVars, sessionVars, patchVars>>

\* PHASE 1, line 123: raise ValueError(f"Unknown LLM provider: ...")
Phase1_UnknownProvider ==
    /\ run.pc = "PHASE 1"
    /\ run.provider \notin KnownProviders
    /\ run' = Stepped("PHASE 1", <<"Calling", run.provider>>, "except", "ValueError")
    /\ UNCHANGED <<worldVars, parseVars, sessionVars, patchVars>>

\* PHASE 2, lines 128-131: scene_plan = parse_sceneplan(raw_text)
Phase2_Parse ==
    /\ run.pc = "PHASE 2"
    /\ \E r \in {parse_sceneplan(raw)} :
          /\ pres' = r
          /\ run' = IF r.kind = "raise"
                    THEN Stepped("PHASE 2", <<"Parsing scene plan">>, "except", r.exc)
                    ELSE Stepped("PHASE 2", <<"Parsing scene plan">>, "PHASE 3", None)
    /\ UNCHANGED <<inp, raw, worldVars, sessionVars, patchVars>>

\* ---- GenerateWorker.run ----
\* lines 45-46: status, graph = patch_workflow(self.prompt_graph,
\* self.char_params, self.append_text, self.gen_params)
Gen_Patch ==
    /\ run.pc = "patch"
    /\ \E randint \in RandInts :
         \E r \in {patch_workflow(heap, TEMPLATE, heap[run.char_params], run.append_text,
                                  heap[run.gen_params], randint)} :
            /\ heap' = r.heap
            /\ run' = IF r.result.kind = "raise"
                      THEN Stepped("patch", <<"Patching workflow">>, "except", r.result.exc)
                      ELSE [Stepped("patch", <<"Patching workflow">>, "queue", None)
                              EXCEPT !.graph = r.result.graph]
    /\ UNCHANGED <<pargs, pout, worldVars, parseVars, sessionVars>>

\* lines 48-54: status, queue_prompt returns a prompt id or raises; then the
\* status of the wait and the first statements of wait_for_history (69-72)
Gen_Queue ==
    /\ run.pc = "queue"
    /\ \/ run' = Stepped("queue", <<"Queueing prompt">>, "except", "Exception")
       \/ run' = [Stepped("queue", <<"Queueing prompt">>, "wait", None)
                    EXCEPT !.signals = Append(@, <<"status", <<"Waiting for ComfyUI">> >>),
                           !.w = [at |-> "while", now |-> 0, extended_timeout |-> TimeoutS,
                                  warned |-> FALSE, queue |-> "unchecked"]]
    /\ UNCHANGED <<worldVars, parseVars, sessionVars, patchVars>>

\* wait_for_history line 74: while time.time() - start < extended_timeout;
\* lines 104-108 when the test fails: raise TimeoutError
Wait_While ==
    /\ run.pc = "wait" /\ run.w.at = "while"
    /\ \E dt \in {0, Tick} :
          LET now == run.w.now + dt
          IN  run' = IF now < run.w.extended_timeout
                     THEN [run EXCEPT !.w.now = now, !.w.at = "poll"]
                     ELSE [run EXCEPT !.w.now = now, !.w.at = "raised",
                                      !.steps = Append(@, "wait"),
                                      !.pc = "except TimeoutError", !.exc = "TimeoutError"]
    /\ UNCHANGED <<worldVars, parseVars, sessionVars, patchVars>>

\* lines 75-88: one poll of /history (the prompt id is there, or it is not, or
\* the request fails), then time.sleep(poll)
Wait_Poll ==
    /\ run.pc = "wait" /\ run.w.at = "poll"
    /\ \/ run' = [run EXCEPT !.w.at = "returned", !.steps = Append(@, "wait"),
                             !.pc = "download"]
       \/ \E dt \in {0, Tick} :
             run' = [run EXCEPT !.w.now = @ + dt, !.w.at = "check"]
    /\ UNCHANGED <<worldVars, parseVars, sessionVars, patchVars>>

\* the queue check that extends whenever the base timeout has passed
Wait_QueueCheck_NotWarned ==
    /\ run.pc = "wait" /\ run.w.at = "check"
    /\ \E dt \in {0, Tick}, queue \in {"active", "idle", "fails"} :
          LET now == run.w.now + dt
          IN  run' = IF now >= TimeoutS
                     THEN IF queue = "active"
                          THEN [run EXCEPT !.w.now = now, !.w.at = "while",
                                           !.w.queue = queue,
                                           !.w.extended_timeout = @ + Grace]
                          ELSE [run EXCEPT !.w.now = now, !.w.at = "raised",
                                           !.w.queue = queue,
                                           !.steps = Append(@, "wait"),
                                           !.pc = "except TimeoutError",
                                           !.exc = "TimeoutError"]
                     ELSE [run EXCEPT !.w.now = now, !.w.at = "while"]
    /\ UNCHANGED <<worldVars, parseVars, sessionVars, patchVars>>

\* the queue check that takes a failed get_queue for an active queue
Wait_QueueCheck_FailsExtends ==
    /\ run.pc = "wait" /\ run.w.at = "check"
    /\ \E dt \in {0, Tick}, queue \in {"active", "idle", "fails"} :
          LET now == run.w.now + dt
          IN  run' = IF now >= TimeoutS /\ ~run.w.warned
                     THEN IF queue \in {"active", "fails"}
                          THEN [run EXCEPT !.w.now = now, !.w.at = "while",
                                           !.w.queue = queue, !.w.warned = TRUE,
                                           !.w.extended_timeout = @ + Grace]
                          ELSE [run EXCEPT !.w.now = now, !.w.at = "raised",
                                           !.w.queue = queue,
                                           !.steps = Append(@, "wait"),
                                           !.pc = "except TimeoutError",
                                           !.exc = "TimeoutError"]
                     ELSE [run EXCEPT !.w.now = now, !.w.at = "while"]
    /\ UNCHANGED <<worldVars, parseVars, sessionVars, patchVars>>

\* lines 89-103: after the base timeout, once, get_queue (a failure counts as
\* an empty queue): a running or pending job extends the deadline, otherwise
\* break and raise TimeoutError (lines 104-108)
Wait_QueueCheck ==
    /\ run.pc = "wait" /\ run.w.at = "check"
    /\ \E dt \in {0, Tick}, queue \in {"active", "idle", "fails"} :
          LET now == run.w.now + dt
          IN  run' = IF now >= TimeoutS /\ ~run.w.warned
                     THEN IF queue = "active"
                          THEN [run EXCEPT !.w.now = now, !.w.at = "while",
                                           !.w.queue = queue, !.w.warned = TRUE,
                                           !.w.extended_timeout = @ + Grace]
                          ELSE [run EXCEPT !.w.now = now, !.w.at = "raised",
                                           !.w.queue = queue,
                                           !.steps = Append(@, "wait"),
                                           !.pc = "except TimeoutError",
                                           !.exc = "TimeoutError"]
                     ELSE [run EXCEPT !.w.now = now, !.w.at = "while"]
    /\ UNCHANGED <<worldVars, parseVars, sessionVars, patchVars>>

\* lines 56-58: extract_first_image raises ValueError, or status and
\* download_image raises, or returns the bytes
Gen_Download ==
    /\ run.pc = "download"
    /\ \/ run' = [run EXCEPT !.pc = "except", !.steps = Append(@, "download"),
                             !.exc = "ValueError"]
       \/ run' = Stepped("download", <<"Downloading image">>, "except", "Exception")
       \/ run' = Stepped("download", <<"Downloading image">>, "emit", None)
    /\ UNCHANGED <<worldVars, parseVars, sessionVars, patchVars>>

\* lines 60-61: self.signals.image.emit(img_bytes); self.signals.status.emit("")
Gen_Emit ==
    /\ run.pc = "emit"
    /\ run' = [run EXCEPT !.pc = "finally", !.steps = Append(@, "emit"),
                          !.signals = @ \o << <<"image">>, <<"status", <<"">> >> >>]
    /\ UNCHANGED <<worldVars, parseVars, sessionVars, patchVars>>

\* ---- the handlers of both run() methods ----
\* except TimeoutError (lines 62-65, 194-199): the timeout status
ExceptTimeoutError ==
    /\ run.pc = "except TimeoutError"
    /\ run' = Stepped("except", <<"ComfyUI timeout">>, "finally", run.exc)
    /\ UNCHANGED <<worldVars, parseVars, sessionVars, patchVars>>

\* the handler that also records the turn of the failed generation
ExceptException_RecordsTurn ==
    /\ run.pc = "except"
    /\ run' = Stepped("except", <<"ERROR", run.exc>>, "finally", run.exc)
    /\ ws' = add_turn(ws, <<"h", "i">>, <<>>, TurnPlan)
    /\ UNCHANGED <<last_op, inserted, parseVars, sessionVars, patchVars>>

\* the handler that reports the error twice
ExceptException_Twice ==
    /\ run.pc = "except"
    /\ run' = [Stepped("except", <<"ERROR", run.exc>>, "finally", run.exc)
                 EXCEPT !.signals = Append(@, <<"status", <<"ERROR", run.exc>> >>)]
    /\ UNCHANGED <<worldVars, parseVars, sessionVars, patchVars>>

\* except Exception as e (lines 66-70, 200-204): self.signals.status.emit(f"ERROR: {e}")
ExceptException ==
    /\ run.pc = "except"
    /\ run' = Stepped("except", <<"ERROR", run.exc>>, "finally", run.exc)
    /\ UNCHANGED <<worldVars, parseVars, sessionVars, patchVars>>

\* finally that clears the status after the done signal
Finally_StatusLast ==
    /\ run.pc = "finally"
    /\ run' = [run EXCEPT !.pc = "end", !.steps = Append(@, "finally"),
                          !.signals = @ \o << <<"done">>, <<"status", <<"">> >> >>,
                          !.done = TRUE]
    /\ UNCHANGED <<worldVars, parseVars, sessionVars, patchVars>>

\* finally (lines 71-72, 205-207): self.signals.done.emit(); the thread ends
Finally ==
    /\ run.pc = "finally"
    /\ run' = [run EXCEPT !.pc = "end", !.steps = Append(@, "finally"),
                          !.signals = Append(@, <<"done">>), !.done = TRUE]
    /\ UNCHANGED <<worldVars, parseVars, sessionVars, patchVars>>

NextRun ==
    \/ ParamsDialogAccepted
    \/ CharacterDialogAccepted
    \/ Phase1_LlmReturns
    \/ Phase1_LlmRaises
    \/ Phase1_UnknownProvider
    \/ Phase2_Parse
    \/ Gen_Patch
    \/ Gen_Queue
    \/ Wait_While
    \/ Wait_Poll
    \/ Wait_QueueCheck
    \/ Gen_Download
    \/ Gen_Emit
    \/ ExceptTimeoutError
    \/ ExceptException
    \/ Finally

SpecRun == InitRun /\ [][NextRun]_vars

(***************************************************************************)
(* Claims about a generation (checked under SpecRun)                       *)
(***************************************************************************)
\* the thread has ended and its model call had returned a text
RunEndedAfterReply == run.pc = "end" /\ Len(run.steps) >= 2 /\ run.steps[2] = "PHASE 2"

C19_StepOrder ==
    RunEndedAfterReply
    => /\ Len(run.steps) >= 3
       /\ run.steps[1] = "PHASE 1"
       /\ run.steps[2] = "PHASE 2"
       /\ run.steps[3] = "PHASE 8"
       /\ last_op.op = "add_turn"

(***************************************************************************)
(* Claim about who writes the WorldState (checked under Spec)              *)
(***************************************************************************)
\* C20: the WorldState is written only by the generation worker's
\* state-update step, the calls of apply_sceneplan and add_turn: no step of the
\* UI thread changes any of its fields (identity_profile and turn_id included).
C20_OnlyWorkerWrites ==
    [][ws' # ws => last_op'.op \in {"apply", "add_turn"}]_vars

(***************************************************************************)
(* Claim about requests refused before admission (checked under Spec)      *)
(***************************************************************************)
\* the configuration holds no credential / model for its provider; the
\* configuration has no key for any provider other than gemini and ollama
CredentialMissing(cfg) ==
    LET provider == lower(cfg.llm_provider)
    IN  IF provider = "gemini" THEN ~Truthy(cfg.gemini_api_key)
        ELSE IF provider = "ollama" THEN ~Truthy(cfg.ollama_model)
        ELSE TRUE

\* C23: when the ping fails or the credential / model of the selected provider
\* is missing, on_generate starts no worker, does not set the session busy,
\* does not change the WorldState and only sets a status message.
C23_RefusedBeforeAdmission ==
    [][ (/\ last_req'.op = "generate"
         /\ last_req' # last_req
         /\ (last_req'.status = "not connected" \/ CredentialMissing(config)))
        => /\ comfy_busy' = comfy_busy
           /\ workers' = workers
           /\ ws' = ws
           /\ last_req'.call = NoOp
           /\ last_req'.status # "..." ]_vars

(***************************************************************************)
(* Claims about the parser's fallbacks (checked under SpecParse)           *)
(***************************************************************************)
\* the candidate blocks of the text after the marker
TailBlocks == _find_json_blocks(RenderTail(inp.tail))

\* positions of the candidate blocks that parse as a JSON object
ValidBlocks ==
    {i \in 1..Len(TailBlocks) : loads(TailBlocks[i]).ok /\ loads(TailBlocks[i]).val.t = "dict"}

\* C27: without the marker, or with the marker and no block after it that
\* parses as a JSON object, the plan has the defaults for scene_append, mood,
\* location, visual_anchor and change_scene, and its reply is the whole input
\* trimmed (the placeholder "..." if that is empty).
C27_FallbackDefaults ==
    (ParseCalled /\ (~inp.marker \/ ValidBlocks = {}))
    => /\ pres.kind = "return"
       /\ pres.plan.scene_append = DEFAULT_SCENE_APPEND
       /\ pres.plan.mood = S_neutral
       /\ pres.plan.location = <<>>
       /\ pres.plan.visual_anchor = <<>>
       /\ pres.plan.change_scene = FALSE
       /\ pres.plan.reply = (IF strip(raw) # <<>> THEN strip(raw) ELSE DEFAULT_REPLY)

\* C28: the candidate blocks are tried from last to first: when some block
\* after the marker parses as a JSON object, the plan is built from the last
\* such block, also when later blocks are malformed.
C28_LastValidBlock ==
    (ParseCalled /\ inp.marker /\ ValidBlocks # {})
    => LET data == loads(TailBlocks[Max(ValidBlocks)]).val
           FromData(key, default) ==
               IF IsNonBlankStr(get(data, key)) THEN strip(get(data, key).v) ELSE default
       IN  /\ pres.kind = "return"
           /\ pres.plan.reply = FromData(K_reply, HeadReply(inp))
           /\ pres.plan.scene_append = FromData(K_scene_append, DEFAULT_SCENE_APPEND)
           /\ pres.plan.mood = FromData(K_mood, S_neutral)
           /\ pres.plan.location = FromData(K_location, <<>>)
           /\ pres.plan.visual_anchor = FromData(K_visual_anchor, <<>>)
           /\ pres.plan.change_scene = (get(data, K_change_scene) = [t |-> "bool", v |-> TRUE])
(***************************************************************************)
(* Claims about the worker threads (checked under SpecRun)                 *)
(***************************************************************************)
\* the positions in the signals of the run that carry the signal named name
SignalsNamed(name) == {i \in 1..Len(run.signals) : run.signals[i][1] = name}

\* the error statuses of the run: the generic one and the timeout one
ErrorStatuses ==
    {i \in SignalsNamed("status") : run.signals[i][2][1] \in {"ERROR", "ComfyUI timeout"}}

\* the run left its try block through an exception
RunFailed ==
    \/ run.pc \in {"except", "except TimeoutError"}
    \/ \E i \in 1..Len(run.steps) : run.steps[i] = "except"

\* the run reported the polling timeout
TimeoutReported ==
    \E i \in SignalsNamed("status") : run.signals[i][2] = <<"ComfyUI timeout">>

\* C30: in every run of either worker the done signal is emitted exactly
\* once and is the last signal of the run: none before the thread ends, and at
\* the end the only done is the last entry, on the success path, the
\* TimeoutError path and the generic exception path alike.
C30_DoneOnceAndLast ==
    /\ run.pc # "none" /\ run.pc # "end" => SignalsNamed("done") = {}
    /\ run.pc = "end" => /\ SignalsNamed("done") = {Len(run.signals)}
                         /\ run.done

\* a GenerateWorker ended on the TimeoutError path with done as its last signal
C30_Witness ==
    /\ run.pc = "end" /\ run.kind = "GenerateWorker" /\ TimeoutReported
    /\ run.signals[Len(run.signals)] = <<"done">>

\* C29: a generation that failed at any step leaves the world state as it
\* was at admission: location, mood, visual_anchor, last_scene_append and
\* history keep their values and no turn is recorded.
C29_FailureKeepsWorldState ==
    RunFailed
        => /\ ws.location = WorldStateNew(<<>>, HistoryMaxDefault).location
           /\ ws.mood = WorldStateNew(<<>>, HistoryMaxDefault).mood
           /\ ws.visual_anchor = WorldStateNew(<<>>, HistoryMaxDefault).visual_anchor
           /\ ws.last_scene_append = WorldStateNew(<<>>, HistoryMaxDefault).last_scene_append
           /\ ws.history = <<>>
           /\ last_op.op \notin {"apply_sceneplan", "add_turn"}

\* a ChatGenerateWorker ended after parse_sceneplan raised on a reply that
\* carried a full scene plan
C29_Witness ==
    /\ run.pc = "end" /\ run.kind = "ChatGenerateWorker" /\ RunFailed
    /\ pres.kind = "raise" /\ inp.marker /\ ws.history = <<>>

\* the run ended the way of lines 184-192 (60-61 in GenerateWorker): the
\* image, the reply where the worker has one, the empty status, and no error
EndedInSuccess ==
    LET n == Len(run.signals)
    IN  /\ ErrorStatuses = {}
        /\ n >= 4
        /\ run.signals[n - 1] = <<"status", <<"">> >>
        /\ IF run.kind = "ChatGenerateWorker"
           THEN /\ run.signals[n - 3] = <<"image">>
                /\ run.signals[n - 2] = <<"reply">>
                /\ SignalsNamed("image") = {n - 3} /\ SignalsNamed("reply") = {n - 2}
           ELSE /\ run.signals[n - 2] = <<"image">>
                /\ SignalsNamed("image") = {n - 2} /\ SignalsNamed("reply") = {}

\* the run ended with one error status and neither image nor reply
EndedInFailure ==
    /\ Cardinality(ErrorStatuses) = 1
    /\ SignalsNamed("image") = {} /\ SignalsNamed("reply") = {}

\* C22: each run ends in exactly one of two outcomes: success (the image,
\* then the reply, then an empty status) or failure (exactly one error status,
\* neither image nor reply); at no moment has a run emitted both an image and
\* an error status.
C22_TwoTerminalOutcomes ==
    /\ run.pc = "end" => (EndedInSuccess /\ ~EndedInFailure) \/ (EndedInFailure /\ ~EndedInSuccess)
    /\ run.pc # "none" => ~(SignalsNamed("image") # {} /\ ErrorStatuses # {})

\* a ChatGenerateWorker ended in failure: one error status after the progress
\* statuses, then done
C22_Witness ==
    /\ run.pc = "end" /\ run.kind = "ChatGenerateWorker"
    /\ Cardinality(ErrorStatuses) = 1
    /\ Len(run.signals) >= 3

WaitCalled == run.pc # "none" /\ run.w.at # "none"

\* the generic error status is among the signals of the run
GenericErrorReported ==
    \E i \in SignalsNamed("status") : run.signals[i][2][1] = "ERROR"

\* C24: when the queue check at the base-timeout boundary reports no running
\* and no pending job, or fails, wait_for_history raises TimeoutError with the
\* deadline not extended, and the worker reports the polling-timeout status,
\* not the generic error status.
C24_IdleQueueTimesOut ==
    (WaitCalled /\ run.w.queue \in {"idle", "fails"})
    => /\ run.w.at = "raised"
       /\ run.w.extended_timeout = TimeoutS
       /\ ~run.w.warned
       /\ run.w.now >= TimeoutS
       /\ run.pc \in {"except TimeoutError", "finally", "end"}
       /\ run.pc \in {"finally", "end"} => TimeoutReported /\ ~GenericErrorReported

\* the queue check failed at the boundary and the run ended with the timeout status
C24_Witness ==
    /\ WaitCalled /\ run.w.queue = "fails" /\ run.pc = "end"
    /\ TimeoutReported

\* C25: the deadline of wait_for_history is the base timeout or the base
\* timeout plus 120 seconds, never more; it is extended only by a queue check
\* made after the base timeout that found a running or pending job; and no
\* poll is made once the loop test has read a time at or past the deadline:
\* the call has raised TimeoutError, whatever the queue holds.
C25_ExtendedAtMostOnce ==
    WaitCalled
    => /\ run.w.extended_timeout \in {TimeoutS, TimeoutS + Grace}
       /\ run.w.extended_timeout = TimeoutS + Grace
             <=> (run.w.warned /\ run.w.queue = "active")
       /\ run.w.warned => run.w.now >= TimeoutS
       /\ run.w.at = "poll" => run.w.now < run.w.extended_timeout
       /\ (run.w.at = "raised" /\ run.w.queue \in {"active", "unchecked"})
             => run.w.now >= run.w.extended_timeout

\* the deadline was extended, passed with the queue still active, and the call
\* raised TimeoutError
C25_Witness ==
    /\ WaitCalled /\ run.w.at = "raised" /\ run.w.warned
    /\ run.w.extended_timeout = TimeoutS + Grace
    /\ run.w.now >= TimeoutS + Grace

\* the graph patch_workflow returns for the template of the run when no
\* dialog is accepted: patched from the objects as they were at admission
GraphWithoutEdit(seed, randint) ==
    CHOOSE g \in
      { GraphAt(r.heap, r.result.graph) :
          r \in {patch_workflow(SubSeq(heap, 1, 2 * Len(heap[TEMPLATE].nodes) + 1), TEMPLATE,
                                RunCharParams, run.append_text, RunGenParams(seed),
                                randint)} } : TRUE

\* C21: the parameters a generation uses are those current at admission:
\* whatever dialogs the user accepts while it is in flight, the objects the
\* worker holds keep their values, and the graph it patched and submits is the
\* graph it would have patched had no dialog been accepted.
C21_ParamsAsAtAdmission ==
    run.pc # "none"
    => /\ heap[run.char_params] = RunCharParams
       /\ \E seed \in {None, IntVal(42)} :
             /\ heap[run.gen_params] = RunGenParams(seed)
             /\ run.graph # 0
                  => \E randint \in RandInts :
                        GraphAt(heap, run.graph) = GraphWithoutEdit(seed, randint)

\* the params dialog was accepted before the worker patched its graph: the
\* controller holds the new GenParams, the graph carries the old steps
C21_Witness ==
    /\ run.pc = "end" /\ run.graph # 0
    /\ pargs.params # run.gen_params
    /\ heap[pargs.params] = EditedGenParams
    /\ pargs.params < run.graph
    /\ GraphAt(heap, run.graph)[1].inputs.steps = 8

====
